---------------------------- MODULE Spec2Model ----------------------------
(***************************************************************************)
(* State-machine model of the video downloader:                            *)
(*   src/video_downloader.py      download_video pipeline, _clip_media,    *)
(*                                _run_cli_download, main (CLI)            *)
(*   src/video_downloader_app.py  _process_batch (CSV batch with cursor)   *)
(*                                                                         *)
(* Python values are tagged records (None, float, str, Path) so that the   *)
(* model can hold "a value or None" in one variable.  Texts are sequences  *)
(* of one-character strings, so that strip() and lower() and the substring *)
(* test of the empty-file fallback are computed, not assumed.              *)
(***************************************************************************)
EXTENDS Integers, Sequences, FiniteSets, TLC

(***************************************************************************)
(* Bounds of the model (not program constants).                            *)
(***************************************************************************)
\* clip bounds handed to download_video range over -1 .. MaxClip seconds
MaxClip == 2
\* a batch holds 1 .. MaxRows rows
MaxRows == 2
\* the pause limit of one _process_batch invocation ranges over 0 .. MaxPause
MaxPause == 2
\* the archive is built from 1 .. MaxArchiveRows rows
MaxArchiveRows == 3

(***************************************************************************)
(* Python values.                                                          *)
(***************************************************************************)
None == [kind |-> "None"]
Float(n) == [kind |-> "float", val |-> n]
Str(chars) == [kind |-> "str", chars |-> chars]
Path(dir, stem, suffix) == [kind |-> "Path", dir |-> dir, stem |-> stem, suffix |-> suffix]

IsNone(v) == v.kind = "None"

(***************************************************************************)
(* Texts: str.strip(), str.lower(), "needle in text".                      *)
(***************************************************************************)
UpperChars == <<"A","B","C","D","E","F","G","H","I","J","K","L","M",
                "N","O","P","Q","R","S","T","U","V","W","X","Y","Z">>
LowerChars == <<"a","b","c","d","e","f","g","h","i","j","k","l","m",
                "n","o","p","q","r","s","t","u","v","w","x","y","z">>
Whitespace == {" ", "\n", "\t"}
Digits == <<"0","1","2","3","4","5","6","7","8","9">>

LowerChar(c) ==
    IF \E i \in 1..Len(UpperChars) : UpperChars[i] = c
    THEN LowerChars[CHOOSE i \in 1..Len(UpperChars) : UpperChars[i] = c]
    ELSE c

\* str.lower()
Lower(s) == [i \in 1..Len(s) |-> LowerChar(s[i])]

\* str.strip()
Strip(s) ==
    LET keep == {i \in 1..Len(s) : s[i] \notin Whitespace}
    IN  IF keep = {} THEN <<>>
        ELSE LET lo == CHOOSE i \in keep : \A j \in keep : i <= j
                 hi == CHOOSE i \in keep : \A j \in keep : j <= i
             IN  SubSeq(s, lo, hi)

\* needle in s
Contains(s, needle) ==
    \E i \in 1..(Len(s) - Len(needle) + 1) : SubSeq(s, i, i + Len(needle) - 1) = needle

(***************************************************************************)
(* Message texts of video_downloader.py.                                   *)
(***************************************************************************)
EMPTY_FILE_NEEDLE == <<"d","o","w","n","l","o","a","d","e","d"," ","f","i","l","e"," ","i","s"," ","e","m","p","t","y">>
EmptyFileMessage == <<"T","h","e"," ","d","o","w","n","l","o","a","d","e","d"," ","f","i","l","e"," ","i","s"," ","e","m","p","t","y">>
NoOutputFileMessage == <<"y","t","-","d","l","p"," ","d","i","d"," ","n","o","t"," ","r","e","p","o","r","t"," ","a","n"," ","o","u","t","p","u","t"," ","f","i","l","e",".">>
UnknownErrorMessage == <<"U","n","k","n","o","w","n"," ","d","o","w","n","l","o","a","d"," ","e","r","r","o","r",".">>
ExitCodePrefix == <<"y","t","-","d","l","p"," ","e","x","i","t","e","d"," ","w","i","t","h"," ","c","o","d","e"," ">>
StatAccessPrefix == <<"U","n","a","b","l","e"," ","t","o"," ","a","c","c","e","s","s"," ","d","o","w","n","l","o","a","d","e","d"," ","f","i","l","e">>

(***************************************************************************)
(* Texts the extraction collaborator (yt-dlp) may leave on stderr/stdout   *)
(* when it exits non-zero.  They are inputs, drawn from this set.          *)
(***************************************************************************)
StderrEmptyFile == <<"E","R","R","O","R",":"," ","T","h","e"," ","d","o","w","n","l","o","a","d","e","d"," ","f","i","l","e"," ","i","s"," ","e","m","p","t","y","\n">>
StderrEmptyFileCaps == <<"E","R","R","O","R",":"," ","T","h","e"," ","D","o","w","n","l","o","a","d","e","d"," ","F","i","l","e"," ","I","s"," ","E","m","p","t","y">>
StderrForbidden == <<"E","R","R","O","R",":"," ","H","T","T","P"," ","E","r","r","o","r"," ","4","0","3",":"," ","F","o","r","b","i","d","d","e","n">>
OutputTexts == {<<>>, <<"\n">>, StderrEmptyFile, StderrEmptyFileCaps, StderrForbidden}


(***************************************************************************)
(* Paths (pathlib.Path): directory, stem (a sequence of name parts) and    *)
(* suffix.  The disk maps each existing file to its content.               *)
(***************************************************************************)
OutputDir == <<"d","o","w","n","l","o","a","d","s">>
TitlePath == Path(OutputDir, <<"t","i","t","l","e">>, <<".","m","p","4">>)
\* the same file as yt-dlp may print it: a bare name, relative to the working directory
RelativeTitlePath == Path(<<".">>, <<"t","i","t","l","e">>, <<".","m","p","4">>)

\* str(path)
PathStr(p) == IF p.dir = <<".">> THEN p.stem \o p.suffix ELSE p.dir \o <<"/">> \o p.stem \o p.suffix
ReportedPaths == {None, TitlePath, RelativeTitlePath}
WrittenPaths == {None, TitlePath}

\* path.exists()
Exists(d, p) == p \in DOMAIN d
\* a file created or overwritten with the given content
WriteFile(d, p, content) == [q \in (DOMAIN d) \cup {p} |-> IF q = p THEN content ELSE d[q]]
\* path.unlink()
Unlink(d, p) == [q \in (DOMAIN d) \ {p} |-> d[q]]
ReplaceKeepsTemp(d, temp, target) ==
    [q \in (DOMAIN d) \cup {target} |-> IF q = target THEN d[temp] ELSE d[q]]
\* temp.replace(target): rename over the target
Replace(d, temp, target) == [q \in ((DOMAIN d) \ {temp}) \cup {target} |-> IF q = target THEN d[temp] ELSE d[q]]

(***************************************************************************)
(* _next_clip_path: the first free "<stem>_clip<suffix>" sibling.          *)
(***************************************************************************)
RECURSIVE NextClipCandidate(_, _, _, _)
NextClipCandidate(source, candidate, counter, d) ==
    IF Exists(d, candidate)
    THEN NextClipCandidate(source,
                           Path(source.dir, source.stem \o <<"_","c","l","i","p","_">> \o <<Digits[counter + 1]>>, source.suffix),
                           counter + 1, d)
    ELSE candidate

NextClipPath(source, d) ==
    LET suffix == IF source.suffix # <<>> THEN source.suffix ELSE <<".","m","p","4">>
    IN  NextClipCandidate(source, Path(source.dir, source.stem \o <<"_","c","l","i","p">>, suffix), 1, d)

(***************************************************************************)
(* What one run of the trim collaborator (ffmpeg) may do: it cannot be     *)
(* launched, or it exits with a return code, having written the temporary  *)
(* target or not; the rename-over and the clean-up unlink may fail.        *)
(***************************************************************************)
ClipOutcomes ==
    {[kind |-> "oserror", returncode |-> 0, wroteTemp |-> FALSE, replaceFails |-> FALSE, unlinkFails |-> FALSE]}
    \cup [kind : {"exit"}, returncode : {0, 1}, wroteTemp : BOOLEAN,
          replaceFails : BOOLEAN, unlinkFails : BOOLEAN]

RemoveTempSkipped(d, temp_target, fails) == d

\* lines 171-175 and 181-184: temp_target.unlink() inside try/except OSError
RemoveTemp(d, temp_target, fails) ==
    IF Exists(d, temp_target) /\ ~fails THEN Unlink(d, temp_target) ELSE d

\* _clip_media(source, start, end); ran: ffmpeg was started; raised: subprocess.run
\* raised; warned: "Failed to remove temporary clip file" was logged (after a
\* non-zero exit unlink is called only on an existing file, after a failed
\* rename-over it is called in any case and fails on a missing file)
ClipMedia(source, start, end, available, d, o) ==
    LET temp_target == NextClipPath(source, d)
        duration == IF IsNone(end) THEN 1 ELSE IF IsNone(start) THEN end.val ELSE end.val - start.val
        written == IF o.wroteTemp
                   THEN WriteFile(d, temp_target, IF o.returncode = 0 THEN "clip" ELSE "partial")
                   ELSE d
        cleaned == RemoveTemp(written, temp_target, o.unlinkFails)
    IN  IF ~available
        THEN [result |-> None, ran |-> FALSE, raised |-> FALSE, warned |-> FALSE, disk |-> d,
              error |-> "Clipping requested but ffmpeg is not available."]
        ELSE IF ~Exists(d, source)
        THEN [result |-> None, ran |-> FALSE, raised |-> FALSE, warned |-> FALSE, disk |-> d,
              error |-> "Cannot clip because the file does not exist."]
        ELSE IF ~IsNone(end) /\ duration <= 0
        THEN [result |-> None, ran |-> FALSE, raised |-> FALSE, warned |-> FALSE, disk |-> d,
              error |-> "Clip end time must be greater than clip start time."]
        ELSE IF o.kind = "oserror"
        THEN [result |-> None, ran |-> TRUE, raised |-> TRUE, warned |-> FALSE, disk |-> d, error |-> ""]
        ELSE IF o.returncode # 0
        THEN [result |-> None, ran |-> TRUE, raised |-> FALSE,
              warned |-> Exists(written, temp_target) /\ o.unlinkFails, disk |-> cleaned,
              error |-> "ffmpeg failed to clip"]
        ELSE IF o.replaceFails \/ ~Exists(written, temp_target)
        THEN [result |-> None, ran |-> TRUE, raised |-> FALSE,
              warned |-> ~Exists(written, temp_target) \/ o.unlinkFails, disk |-> cleaned,
              error |-> "Failed to replace original file with clipped media"]
        ELSE [result |-> source, ran |-> TRUE, raised |-> FALSE, warned |-> FALSE,
              disk |-> Replace(written, temp_target, source), error |-> ""]

(***************************************************************************)
(* What one run of the extraction collaborator (yt-dlp) may do: it cannot  *)
(* be launched, it exits non-zero leaving text on stderr/stdout, or it     *)
(* exits 0 having written a file (empty or not) and printed a path.        *)
(***************************************************************************)
ExtractOutcomes ==
    {[kind |-> "oserror", returncode |-> 1, stderr |-> <<>>, stdout |-> <<>>,
      reported |-> None, written |-> None, content |-> "data", fault |-> "none"]}
    \cup {[kind |-> "exit", returncode |-> 1, stderr |-> e, stdout |-> t,
           reported |-> None, written |-> None, content |-> "data", fault |-> "none"] :
              e \in OutputTexts, t \in OutputTexts}
    \cup {[kind |-> "exit", returncode |-> 0, stderr |-> <<>>, stdout |-> <<>>,
           reported |-> r, written |-> w, content |-> c, fault |-> f] :
              r \in ReportedPaths, w \in WrittenPaths, c \in {"empty", "data"},
              f \in {"none", "stat", "unlink"}}

\* the disk after the collaborator ran
AfterExtract(d, o) == IF IsNone(o.written) THEN d ELSE WriteFile(d, o.written, o.content)

\* f"yt-dlp exited with code {completed.returncode}"
ExitCodeMessage(returncode) == ExitCodePrefix \o <<Digits[returncode + 1]>>

RemoveEmptyFileSkipped(d, file_path, fails) == d

\* lines 316-320: file_path.unlink() inside try/except OSError: pass
RemoveEmptyFile(d, file_path, fails) == IF fails THEN d ELSE Unlink(d, file_path)

\* _run_cli_download after subprocess.run returned: (file_path, error message), and
\* the disk; examined: the path whose size was read, None when none was;
\* found_empty: the size was 0; unlink_failed: the unlink of line 318 raised
RunCliDownload(o, output_dir, d) ==
    LET stderr == Strip(o.stderr)
        stdout == Strip(o.stdout)
        parsed == o.reported
        potential == IF IsNone(parsed) THEN None ELSE Path(output_dir, parsed.stem, parsed.suffix)
        file_path == IF ~IsNone(parsed) /\ ~Exists(d, parsed) /\ Exists(d, potential)
                     THEN potential ELSE parsed
        unexamined == [examined |-> None, found_empty |-> FALSE, unlink_failed |-> FALSE]
    IN  IF o.returncode # 0
        THEN [file_path |-> None,
              message |-> Str(IF stderr # <<>> THEN stderr
                              ELSE IF stdout # <<>> THEN stdout
                              ELSE ExitCodeMessage(o.returncode)),
              disk |-> d] @@ unexamined
        ELSE IF IsNone(file_path) \/ ~Exists(d, file_path)
        THEN [file_path |-> None, message |-> Str(NoOutputFileMessage), disk |-> d] @@ unexamined
        ELSE IF o.fault = "stat"
        THEN [file_path |-> None, message |-> Str(StatAccessPrefix), disk |-> d] @@ unexamined
        ELSE IF d[file_path] = "empty"
        THEN [file_path |-> None, message |-> Str(EmptyFileMessage),
              disk |-> RemoveEmptyFile(d, file_path, o.fault = "unlink"),
              examined |-> file_path, found_empty |-> TRUE,
              unlink_failed |-> (o.fault = "unlink")]
        ELSE [file_path |-> file_path, message |-> None, disk |-> d,
              examined |-> file_path, found_empty |-> FALSE, unlink_failed |-> FALSE]

(***************************************************************************)
(* download_video: clip-bound validation.                                  *)
(***************************************************************************)
\* float(value): the number, or None standing for TypeError/ValueError
ToFloat(v) ==
    IF v.kind = "float" THEN v
    ELSE IF v.kind = "str" /\ Len(v.chars) = 1 /\ \E i \in 1..Len(Digits) : Digits[i] = v.chars[1]
    THEN Float((CHOOSE i \in 1..Len(Digits) : Digits[i] = v.chars[1]) - 1)
    ELSE None

ClipInputs ==
    {None, Str(<<"a","b","c">>), Str(<<"2">>)} \cup {Float(n) : n \in -1..MaxClip}

StartInvalidError == "Invalid clip start value; must be numeric seconds."
StartNegativeError == "Clip start time must be zero or positive."
EndInvalidError == "Invalid clip end value; must be numeric seconds."
EndNotPositiveError == "Clip end time must be greater than zero."
EndNotAfterStartError == "Clip end time must be greater than clip start time."
MkdirError == "Unable to create output directory"

StartNegativeAccepted(s) == FALSE
\* line 387: clip_start_seconds < 0
StartNegative(s) == s.val < 0
\* line 397: clip_end_seconds <= 0
EndNotPositiveAcceptsZero(e) == e.val < 0
EndNotPositive(e) == e.val <= 0
\* line 404: clip_end_seconds <= clip_start_seconds
EndNotAfterStartAcceptsEqual(s, e) == e.val < s.val
EndNotAfterStart(s, e) == e.val <= s.val

\* lines 378-407: the converted bounds, or the error that is logged before returning None
ValidateClip(clip_start, clip_end) ==
    LET s == IF IsNone(clip_start) THEN None ELSE ToFloat(clip_start)
        e == IF IsNone(clip_end) THEN None ELSE ToFloat(clip_end)
    IN  IF ~IsNone(clip_start) /\ IsNone(s)
        THEN [ok |-> FALSE, error |-> StartInvalidError, start |-> None, end |-> None]
        ELSE IF ~IsNone(s) /\ StartNegative(s)
        THEN [ok |-> FALSE, error |-> StartNegativeError, start |-> s, end |-> None]
        ELSE IF ~IsNone(clip_end) /\ IsNone(e)
        THEN [ok |-> FALSE, error |-> EndInvalidError, start |-> s, end |-> None]
        ELSE IF ~IsNone(e) /\ EndNotPositive(e)
        THEN [ok |-> FALSE, error |-> EndNotPositiveError, start |-> s, end |-> e]
        ELSE IF ~IsNone(s) /\ ~IsNone(e) /\ EndNotAfterStart(s, e)
        THEN [ok |-> FALSE, error |-> EndNotAfterStartError, start |-> s, end |-> e]
        ELSE [ok |-> TRUE, error |-> "", start |-> s, end |-> e]

(***************************************************************************)
(* download_video: the attempt loop.                                       *)
(***************************************************************************)
AttemptConfigs ==
    << [label |-> "initial", extra_flags |-> <<>>],
       [label |-> "ipv4", extra_flags |-> <<<<"-","-","f","o","r","c","e","-","i","p","v","4">>, <<"-","-","h","t","t","p","-","c","h","u","n","k","-","s","i","z","e">>,
                                            <<"1","0","4","8","5","7","6">>>>] >>

IsEmptyFileErrorCaseSensitive(message) ==
    /\ ~IsNone(message)
    /\ message.chars # <<>>
    /\ Contains(message.chars, EMPTY_FILE_NEEDLE)

\* last_error_message and "downloaded file is empty" in last_error_message.lower()
IsEmptyFileError(message) ==
    /\ ~IsNone(message)
    /\ message.chars # <<>>
    /\ Contains(Lower(message.chars), EMPTY_FILE_NEEDLE)

(***************************************************************************)
(* State.                                                                  *)
(*   ffmpegAvailable  FFMPEG_AVAILABLE, fixed when the module is imported  *)
(*   disk             the files that exist, with their content             *)
(*   caller           who called download_video: "none", "main" (the CLI), *)
(*                    "library" (an importing program), "batch" (a row)    *)
(*   dv               the running download_video call: its position, its   *)
(*                    arguments and locals, its return value, and `events`,*)
(*                    the collaborator runs it started, in order           *)
(*   cli              the CLI process: position, exit status, stdout       *)
(*   batch            the batch context and the running _process_batch     *)
(***************************************************************************)
VARIABLES ffmpegAvailable, disk, caller, dv, cli, batch

vars == <<ffmpegAvailable, disk, caller, dv, cli, batch>>

ExampleUrl == <<"h","t","t","p","s",":","/","/","e","x","a","m","p","l","e",".","c","o","m","/","v">>
Urls == {ExampleUrl}

DvIdle ==
    [pc |-> "idle", url |-> <<>>, clip_start |-> None, clip_end |-> None,
     clip_start_seconds |-> None, clip_end_seconds |-> None, error |-> "",
     clip_error |-> "", clip_warning |-> FALSE, temp_target |-> None,
     examined |-> None, found_empty |-> FALSE, unlink_failed |-> FALSE,
     index |-> 0, last_error_message |-> None, file_path |-> None,
     result |-> None, events |-> <<>>]

\* the call download_video(url, output_dir, ..., clip_start, clip_end) is entered
DvCall(url, clip_start, clip_end) ==
    [DvIdle EXCEPT !.pc = "validate", !.url = url,
                   !.clip_start = clip_start, !.clip_end = clip_end]

CliIdle == [pc |-> "idle", exit_code |-> -1, stdout |-> <<>>]

\* no CSV loaded; the fields are the batch context (rows, next_row,
\* skip_completed_default, last_pause_limit), the locals of _process_batch, and
\* the batch results of the session (has_results: some invocation has returned);
\* entry_rows remembers the rows as an invocation found them
BatchIdle ==
    [pc |-> "idle", loaded |-> FALSE, rows |-> <<>>, next_row |-> 0,
     skip_completed_default |-> FALSE, last_pause_limit |-> 0,
     pause_limit |-> 0, skip_completed |-> FALSE, start_index |-> 0, zero_idx |-> 0,
     processed_in_run |-> 0, pause_triggered |-> FALSE, results |-> <<>>,
     entry_rows |-> <<>>, has_results |-> FALSE, remaining_rows |-> 0, paused_after |-> 0,
     zip |-> None, summary_counts |-> [success |-> 0, failure |-> 0, skipped |-> 0],
     all_results |-> <<>>]

\* files left by earlier runs: the download itself, a clip of it
InitialDisks ==
    {[p \in S |-> "data"] : S \in SUBSET {TitlePath, NextClipPath(TitlePath, <<>>)}}

Init ==
    /\ ffmpegAvailable \in BOOLEAN
    /\ disk \in InitialDisks
    /\ caller = "none"
    /\ dv = DvIdle
    /\ cli = CliIdle
    /\ batch = BatchIdle

(***************************************************************************)
(* download_video, step by step.                                           *)
(***************************************************************************)
\* lines 345-412: output directory, clip-bound validation
DvValidate ==
    /\ dv.pc = "validate"
    /\ \E mkdirOk \in BOOLEAN :
         LET v == ValidateClip(dv.clip_start, dv.clip_end)
         IN  dv' = IF ~mkdirOk
                   THEN [dv EXCEPT !.pc = "returned", !.result = None,
                                   !.error = MkdirError]
                   ELSE IF ~v.ok
                   THEN [dv EXCEPT !.pc = "returned", !.result = None, !.error = v.error]
                   ELSE [dv EXCEPT !.pc = "attempt", !.index = 0,
                                   !.clip_start_seconds = v.start,
                                   !.clip_end_seconds = v.end]
    /\ UNCHANGED <<ffmpegAvailable, disk, caller, cli, batch>>

ClipRequestedAndAvailable(d) ==
    (~IsNone(d.clip_start_seconds) \/ ~IsNone(d.clip_end_seconds)) /\ ffmpegAvailable

ClipRequestedAlways(d) == TRUE

\* line 445: clip_start_seconds is not None or clip_end_seconds is not None
ClipRequested(d) == ~IsNone(d.clip_start_seconds) \/ ~IsNone(d.clip_end_seconds)

ShouldRetryAnyError(index, message) == index = 0

\* line 463: the initial attempt is retried after an empty-file error
ShouldRetry(index, message) == index = 0 /\ IsEmptyFileError(message)

\* lines 423-476 (and 478-484 when the loop ends): one pass of the attempt loop
DvAttempt ==
    /\ dv.pc = "attempt"
    /\ \E o \in ExtractOutcomes :
         LET config == AttemptConfigs[dv.index + 1]
             r == RunCliDownload(o, OutputDir, AfterExtract(disk, o))
             message == IF IsNone(r.message) \/ r.message.chars = <<>>
                        THEN Str(UnknownErrorMessage) ELSE r.message
             started == [dv EXCEPT !.events = Append(@,
                            IF o.kind = "oserror"
                            THEN [run |-> config.label, outcome |-> "raised", message |-> None]
                            ELSE IF ~IsNone(r.file_path)
                            THEN [run |-> config.label, outcome |-> "ok", message |-> None]
                            ELSE [run |-> config.label, outcome |-> "failed", message |-> message]),
                                   !.examined = IF o.kind = "oserror" THEN None ELSE r.examined,
                                   !.found_empty = o.kind # "oserror" /\ r.found_empty,
                                   !.unlink_failed = o.kind # "oserror" /\ r.unlink_failed]
         IN  IF dv.index > 0 /\ ~IsEmptyFileError(dv.last_error_message)
             THEN \* break, then the code after the loop
                  /\ dv' = [dv EXCEPT !.pc = "returned", !.result = None]
                  /\ disk' = disk
             ELSE IF o.kind = "oserror"
             THEN \* subprocess.run raises; nothing catches it
                  /\ dv' = [started EXCEPT !.pc = "raised"]
                  /\ disk' = disk
             ELSE IF ~IsNone(r.file_path)
             THEN /\ dv' = IF ClipRequested(dv)
                           THEN [started EXCEPT !.pc = "clip", !.file_path = r.file_path]
                           ELSE [started EXCEPT !.pc = "returned", !.file_path = r.file_path,
                                                !.result = r.file_path]
                  /\ disk' = r.disk
             ELSE /\ dv' = IF ShouldRetry(dv.index, message) /\ dv.index + 1 < Len(AttemptConfigs)
                           THEN [started EXCEPT !.index = @ + 1, !.last_error_message = message]
                           ELSE [started EXCEPT !.pc = "returned", !.result = None,
                                                !.last_error_message = message]
                  /\ disk' = r.disk
    /\ UNCHANGED <<ffmpegAvailable, caller, cli, batch>>

ClipResultKeepsOriginal(file_path, clipped_path) ==
    IF IsNone(clipped_path) THEN file_path ELSE clipped_path

\* lines 452-457: a clip that failed invalidates the download
ClipResult(file_path, clipped_path) == IF IsNone(clipped_path) THEN None ELSE clipped_path

\* lines 445-457: the downloaded file is clipped
DvClip ==
    /\ dv.pc = "clip"
    /\ \E o \in ClipOutcomes :
         LET c == ClipMedia(dv.file_path, dv.clip_start_seconds, dv.clip_end_seconds,
                            ffmpegAvailable, disk, o)
             ran == IF c.ran
                    THEN [dv EXCEPT !.events = Append(@,
                             [run |-> "ffmpeg",
                              outcome |-> IF o.kind = "oserror" THEN "raised"
                                          ELSE IF o.returncode # 0 THEN "exit_nonzero"
                                          ELSE IF IsNone(c.result) THEN "replace_failed"
                                          ELSE "ok",
                              message |-> None])]
                    ELSE dv
         IN  /\ dv' = IF c.raised
                      THEN [ran EXCEPT !.pc = "raised"]
                      ELSE [ran EXCEPT !.pc = "returned", !.clip_error = c.error,
                                       !.clip_warning = c.warned,
                                       !.temp_target = IF c.ran THEN NextClipPath(dv.file_path, disk)
                                                       ELSE None,
                                       !.result = ClipResult(dv.file_path, c.result)]
             /\ disk' = c.disk
    /\ UNCHANGED <<ffmpegAvailable, caller, cli, batch>>

\* another process removes a file while download_video runs
ExternalUnlink ==
    /\ dv.pc \in {"attempt", "clip"}
    /\ \E p \in DOMAIN disk : disk' = Unlink(disk, p)
    /\ UNCHANGED <<ffmpegAvailable, caller, dv, cli, batch>>

(***************************************************************************)
(* Callers of download_video outside the batch.                            *)
(***************************************************************************)
\* an importing program calls download_video with any clip bounds
LibraryCall ==
    /\ caller = "none"
    /\ \E url \in Urls, clip_start \in ClipInputs, clip_end \in ClipInputs :
         dv' = DvCall(url, clip_start, clip_end)
    /\ caller' = "library"
    /\ UNCHANGED <<ffmpegAvailable, disk, cli, batch>>

\* main(), lines 487-513: the CLI passes no clip bounds
Main ==
    /\ caller = "none"
    /\ cli.pc = "idle"
    /\ \E url \in Urls : dv' = DvCall(url, None, None)
    /\ caller' = "main"
    /\ cli' = [cli EXCEPT !.pc = "running"]
    /\ UNCHANGED <<ffmpegAvailable, disk, batch>>

MainResultAlwaysZero(result) ==
    IF ~IsNone(result)
    THEN [pc |-> "exited", exit_code |-> 0, stdout |-> <<result>>]
    ELSE [pc |-> "exited", exit_code |-> 0, stdout |-> <<>>]

\* main(), lines 514-517: print the path and return 0, or return 1
MainResult(result) ==
    IF ~IsNone(result)
    THEN [pc |-> "exited", exit_code |-> 0, stdout |-> <<result>>]
    ELSE [pc |-> "exited", exit_code |-> 1, stdout |-> <<>>]

\* sys.exit(main()) at line 521; an exception that leaves main ends the process
\* with status 1 and a traceback on stderr, nothing on stdout
MainExit ==
    /\ caller = "main"
    /\ cli.pc = "running"
    /\ dv.pc \in {"returned", "raised"}
    /\ cli' = IF dv.pc = "returned"
              THEN MainResult(dv.result)
              ELSE [pc |-> "crashed", exit_code |-> 1, stdout |-> <<>>]
    /\ UNCHANGED <<ffmpegAvailable, disk, caller, dv, batch>>

Next ==
    \/ LibraryCall
    \/ Main
    \/ DvValidate
    \/ DvAttempt
    \/ DvClip
    \/ ExternalUnlink
    \/ MainExit

Spec == Init /\ [][Next]_vars

(***************************************************************************)
(* The CSV batch of video_downloader_app.py.  A row is its cells: texts as *)
(* csv.DictReader yields them, None for a cell the line does not have.     *)
(* The details are kept as sequences of message parts, nothing in the      *)
(* program looks inside them.                                              *)
(***************************************************************************)
SKIPPED == <<"s","k","i","p","p","e","d">>
FAILED == <<"f","a","i","l","e","d">>
DOWNLOADED == <<"d","o","w","n","l","o","a","d","e","d">>
COMPLETED_STATUS_VALUES == {<<"d","o","w","n","l","o","a","d","e","d">>, <<"s","u","c","c","e","s","s">>}
SkipValues == {<<"1">>, <<"t","r","u","e">>, <<"y","e","s">>, <<"s","k","i","p">>}
NoneText == <<"N","o","n","e">>
ProcessedAt == <<"n","o","w">>

\* str(value)
PyStr(v) == IF IsNone(v) THEN NoneText ELSE v.chars
\* (value or "")
OrEmpty(v) == IF IsNone(v) THEN <<>> ELSE v.chars

IsDigit(c) == \E i \in 1..Len(Digits) : Digits[i] = c
DigitValue(c) == (CHOOSE i \in 1..Len(Digits) : Digits[i] = c) - 1

\* yt_dlp.utils.parse_duration on the forms "S" and "M:SS"
ParseDuration(text) ==
    IF Len(text) = 1 /\ IsDigit(text[1])
    THEN Float(DigitValue(text[1]))
    ELSE IF Len(text) = 4 /\ IsDigit(text[1]) /\ text[2] = ":" /\ IsDigit(text[3]) /\ IsDigit(text[4])
    THEN Float(60 * DigitValue(text[1]) + 10 * DigitValue(text[3]) + DigitValue(text[4]))
    ELSE None

\* parse_time_to_seconds on a text
ParseTimeToSeconds(value) ==
    LET text == Strip(value)
        parsed == ParseDuration(text)
        numeric == ToFloat(Str(text))
    IN  IF text = <<>> THEN None
        ELSE IF ~IsNone(parsed) THEN parsed
        ELSE IF IsNone(numeric) THEN None
        ELSE IF numeric.val < 0 THEN None
        ELSE numeric

Row(url, skip, clip_start, clip_end, status, path) ==
    [url |-> url, skip |-> skip, clip_start |-> clip_start, clip_end |-> clip_end,
     status |-> status, detail |-> Str(<<>>), path |-> path, processed_at |-> Str(<<>>)]

Blank == Str(<<>>)
\* the rows a CSV may hold: a plain URL, a blank URL, a skip mark, a row already
\* downloaded by an earlier run, clip bounds, clip bounds with end <= start, a
\* line that ends after its skip mark, a line that ends after its status and
\* path, two rows that several checks of the policy match at once, and a clip
\* bound that is no time
PlainRow == Row(Str(ExampleUrl), Blank, Blank, Blank, Blank, Blank)
BlankUrlRow == Row(Str(<<" ">>), Blank, Blank, Blank, Blank, Blank)
SkipMarkedRow == Row(Str(ExampleUrl), Str(<<"Y","e","s">>), Blank, Blank, Blank, Blank)
CompletedRow == Row(Str(ExampleUrl), Blank, Blank, Blank, Str(<<"D","o","w","n","l","o","a","d","e","d">>), Str(PathStr(TitlePath)))
ClipRow == Row(Str(ExampleUrl), Blank, Str(<<"0",":","0","1">>), Str(<<"2">>), Blank, Blank)
BadClipRow == Row(Str(ExampleUrl), Blank, Str(<<"2">>), Str(<<"0",":","0","1">>), Blank, Blank)
ShortSkipRow == Row(None, Str(<<"Y","e","s">>), None, None, None, None)
ShortCompletedRow ==
    Row(None, None, None, None, Str(<<"s","u","c","c","e","s","s">>), Str(PathStr(TitlePath)))
AllChecksRow ==
    Row(Str(<<" ">>), Str(<<"1">>), Str(<<"a","b","c">>), Blank,
        Str(<<"D","o","w","n","l","o","a","d","e","d">>), Str(PathStr(TitlePath)))
BlankUrlBadClipRow == Row(Blank, Blank, Str(<<"2">>), Str(<<"2">>), Blank, Blank)
UnparsableClipRow == Row(Str(ExampleUrl), Blank, Str(<<"a","b","c">>), Str(<<"2">>), Blank, Blank)
RowKinds ==
    {PlainRow, BlankUrlRow, SkipMarkedRow, CompletedRow, ClipRow, BadClipRow, ShortSkipRow,
     ShortCompletedRow, AllChecksRow, BlankUrlBadClipRow, UnparsableClipRow}

\* lines 392-413: the seconds parsed from a row's clip cell, None when the cell is
\* blank or unparsable
ClipSeconds(cell) ==
    LET raw == Strip(OrEmpty(cell))
    IN  IF raw # <<>> THEN ParseTimeToSeconds(raw) ELSE None

RowErrorsIgnoresFfmpeg(row, available) ==
    LET clip_start_raw == Strip(OrEmpty(row.clip_start))
        clip_end_raw == Strip(OrEmpty(row.clip_end))
        clip_start_seconds == ClipSeconds(row.clip_start)
        clip_end_seconds == ClipSeconds(row.clip_end)
    IN      (IF clip_start_raw # <<>> /\ IsNone(clip_start_seconds)
             THEN <<"Invalid clip start time value.">> ELSE <<>>)
            \o (IF clip_end_raw # <<>> /\ IsNone(clip_end_seconds)
                THEN <<"Invalid clip end time value.">> ELSE <<>>)
            \o (IF ~IsNone(clip_start_seconds) /\ ~IsNone(clip_end_seconds)
                THEN IF clip_end_seconds.val <= clip_start_seconds.val
                     THEN <<"Clip end time must be greater than clip start time.">> ELSE <<>>
                ELSE <<>>)

\* lines 396-413: row_errors
RowErrors(row, available) ==
    LET clip_start_raw == Strip(OrEmpty(row.clip_start))
        clip_end_raw == Strip(OrEmpty(row.clip_end))
        clip_start_seconds == ClipSeconds(row.clip_start)
        clip_end_seconds == ClipSeconds(row.clip_end)
    IN      (IF clip_start_raw # <<>> /\ IsNone(clip_start_seconds)
             THEN <<"Invalid clip start time value.">> ELSE <<>>)
            \o (IF clip_end_raw # <<>> /\ IsNone(clip_end_seconds)
                THEN <<"Invalid clip end time value.">> ELSE <<>>)
            \o (IF ~IsNone(clip_start_seconds) /\ ~IsNone(clip_end_seconds)
                THEN IF clip_end_seconds.val <= clip_start_seconds.val
                     THEN <<"Clip end time must be greater than clip start time.">> ELSE <<>>
                ELSE <<>>)
            \o (IF (~IsNone(clip_start_seconds) \/ ~IsNone(clip_end_seconds)) /\ ~available
                THEN <<"ffmpeg not available for clipping.">> ELSE <<>>)

\* lines 329-432: what the per-row policy decides before any download
RowPolicy(row, skip_completed, available) ==
    LET existing_status == Lower(Strip(PyStr(row.status)))
        existing_path == OrEmpty(row.path)
        skip_value == Lower(Strip(PyStr(row.skip)))
        url_value == Strip(OrEmpty(row.url))
        clip_start_seconds == ClipSeconds(row.clip_start)
        clip_end_seconds == ClipSeconds(row.clip_end)
        row_errors == RowErrors(row, available)
        decision(kind, url, detail) ==
            [kind |-> kind, url |-> url, detail |-> detail,
             clip_start |-> clip_start_seconds, clip_end |-> clip_end_seconds]
    IN  IF skip_completed /\ existing_status \in COMPLETED_STATUS_VALUES /\ existing_path # <<>>
        THEN IF IsNone(row.url) THEN decision("raise", <<>>, <<>>)
             ELSE decision("skipped", Strip(row.url.chars), <<"Already marked as downloaded in CSV.">>)
        ELSE IF skip_value \in SkipValues
        THEN IF IsNone(row.url) THEN decision("raise", <<>>, <<>>)
             ELSE decision("skipped", Strip(row.url.chars), <<"Marked to skip via CSV.">>)
        ELSE IF url_value = <<>>
        THEN decision("skipped", <<>>, <<"Missing URL value.">>)
        ELSE IF row_errors # <<>>
        THEN decision("failed", url_value, row_errors)
        ELSE decision("download", url_value, <<>>)

\* set_row_status, lines 295-300
SetRowStatus(row, status, detail, path_value) ==
    [row EXCEPT !.status = Str(status), !.detail = Str(detail),
                !.path = IF IsNone(path_value) THEN Str(<<>>) ELSE Str(PathStr(path_value)),
                !.processed_at = Str(ProcessedAt)]

EnterProcessBatchFromStart(b, pause_limit, skip_completed) ==
    [b EXCEPT !.pc = "loop",
              !.next_row = 0,
              !.skip_completed_default = skip_completed,
              !.last_pause_limit = pause_limit,
              !.pause_limit = pause_limit, !.skip_completed = skip_completed,
              !.start_index = 0, !.zero_idx = 0,
              !.processed_in_run = 0, !.pause_triggered = FALSE, !.results = <<>>,
              !.entry_rows = b.rows, !.remaining_rows = 0, !.paused_after = 0,
              !.zip = None]

\* _process_batch, lines 222-323: the invocation is entered and reaches the loop
EnterProcessBatch(b, pause_limit, skip_completed) ==
    LET total == Len(b.rows)
        start_index == IF b.next_row < total THEN b.next_row ELSE total
    IN  [b EXCEPT !.pc = IF start_index >= total THEN "finish" ELSE "loop",
                  !.next_row = start_index,
                  !.skip_completed_default = skip_completed,
                  !.last_pause_limit = pause_limit,
                  !.pause_limit = pause_limit, !.skip_completed = skip_completed,
                  !.start_index = start_index, !.zero_idx = start_index,
                  !.processed_in_run = 0, !.pause_triggered = FALSE, !.results = <<>>,
                  !.entry_rows = b.rows, !.remaining_rows = 0, !.paused_after = 0,
              !.zip = None]

\* pause_limit and processed_in_run >= pause_limit
PauseReached(pause_limit, processed_in_run) ==
    pause_limit # 0 /\ processed_in_run >= pause_limit

RowDoneStopsAtFailure(b, row, status, url, detail) ==
    LET paused == PauseReached(b.pause_limit, b.processed_in_run)
        last == b.zero_idx + 1 >= Len(b.rows)
    IN  [b EXCEPT !.rows[b.zero_idx + 1] = row,
                  !.results = Append(@, [Row |-> b.zero_idx + 1, URL |-> url,
                                         Status |-> status, Detail |-> detail]),
                  !.next_row = b.zero_idx + 1,
                  !.pause_triggered = paused,
                  !.zero_idx = IF paused THEN @ ELSE @ + 1,
                  !.pc = IF paused \/ last \/ status = FAILED THEN "finish" ELSE "loop"]

RowDoneWithoutResult(b, row, status, url, detail) ==
    LET paused == PauseReached(b.pause_limit, b.processed_in_run)
        last == b.zero_idx + 1 >= Len(b.rows)
    IN  [b EXCEPT !.rows[b.zero_idx + 1] = row,
                  !.results = IF status = SKIPPED THEN @
                              ELSE Append(@, [Row |-> b.zero_idx + 1, URL |-> url,
                                              Status |-> status, Detail |-> detail]),
                  !.next_row = b.zero_idx + 1,
                  !.pause_triggered = paused,
                  !.zero_idx = IF paused THEN @ ELSE @ + 1,
                  !.pc = IF paused \/ last THEN "finish" ELSE "loop"]

\* the end of one pass of the loop: the row is rewritten, its result appended, the
\* cursor advanced; then the loop breaks at the pause limit, ends, or goes on
RowDone(b, row, status, url, detail) ==
    LET paused == PauseReached(b.pause_limit, b.processed_in_run)
        last == b.zero_idx + 1 >= Len(b.rows)
    IN  [b EXCEPT !.rows[b.zero_idx + 1] = row,
                  !.results = Append(@, [Row |-> b.zero_idx + 1, URL |-> url,
                                         Status |-> status, Detail |-> detail]),
                  !.next_row = b.zero_idx + 1,
                  !.pause_triggered = paused,
                  !.zero_idx = IF paused THEN @ ELSE @ + 1,
                  !.pc = IF paused \/ last THEN "finish" ELSE "loop"]

\* the CSV upload handler, lines 882-959: a new context, and _process_batch is
\* entered; a session is followed through one uploaded CSV
BatchLoad ==
    /\ caller = "none"
    /\ cli.pc = "idle"
    /\ batch.pc = "idle"
    /\ \E n \in 1..MaxRows, pause_limit \in 0..MaxPause, skip_completed \in BOOLEAN :
         \E rows \in [1..n -> RowKinds] :
            batch' = EnterProcessBatch([BatchIdle EXCEPT !.loaded = TRUE, !.rows = rows,
                                                         !.next_row = 0],
                                       pause_limit, skip_completed)
    /\ UNCHANGED <<ffmpegAvailable, disk, caller, dv, cli>>

\* the continue handler, lines 967-977: _process_batch is entered on the loaded
\* context; the button is part of the displayed results (line 191) and stays after
\* an invocation that raised
BatchContinue ==
    /\ batch.pc \in {"returned", "raised"}
    /\ batch.loaded
    /\ batch.has_results
    /\ \E pause_limit \in 1..MaxPause, skip_completed \in BOOLEAN :
         batch' = EnterProcessBatch(batch, pause_limit, skip_completed)
    /\ UNCHANGED <<ffmpegAvailable, disk, caller, dv, cli>>

\* lines 324-441: one pass of the loop up to the download: the row is counted, then
\* skipped or failed by policy, or download_video is called for it
BatchRowPolicy ==
    /\ batch.pc = "loop"
    /\ LET row == batch.rows[batch.zero_idx + 1]
           d == RowPolicy(row, batch.skip_completed, ffmpegAvailable)
           b == [batch EXCEPT !.processed_in_run = @ + 1]
       IN  IF d.kind = "raise"
           THEN /\ batch' = [b EXCEPT !.pc = "raised"]
                /\ UNCHANGED <<caller, dv>>
           ELSE IF d.kind = "download"
           THEN /\ batch' = [b EXCEPT !.pc = "download"]
                /\ caller' = "batch"
                /\ dv' = DvCall(d.url, d.clip_start, d.clip_end)
           ELSE /\ batch' = RowDone(b, SetRowStatus(row, IF d.kind = "skipped" THEN SKIPPED ELSE FAILED,
                                                    d.detail, None),
                                    IF d.kind = "skipped" THEN SKIPPED ELSE FAILED,
                                    d.url, d.detail)
                /\ UNCHANGED <<caller, dv>>
    /\ UNCHANGED <<ffmpegAvailable, disk, cli>>

\* lines 442-467: download_video returned; the row becomes downloaded or failed
BatchRowDownloaded ==
    /\ batch.pc = "download"
    /\ caller = "batch"
    /\ dv.pc = "returned"
    /\ LET row == batch.rows[batch.zero_idx + 1]
       IN  batch' = IF ~IsNone(dv.result)
                    THEN RowDone(batch, SetRowStatus(row, DOWNLOADED, <<PathStr(dv.result)>>, dv.result),
                                 DOWNLOADED, dv.url, <<PathStr(dv.result)>>)
                    ELSE RowDone(batch, SetRowStatus(row, FAILED, <<"Download failed.">>, None),
                                 FAILED, dv.url, <<"Download failed.">>)
    /\ caller' = "none"
    /\ dv' = DvIdle
    /\ UNCHANGED <<ffmpegAvailable, disk, cli>>

\* download_video raised: the finally block of lines 483-495 runs and the
\* exception leaves _process_batch; nothing is returned
BatchRowRaised ==
    /\ batch.pc = "download"
    /\ caller = "batch"
    /\ dv.pc = "raised"
    /\ batch' = [batch EXCEPT !.pc = "raised"]
    /\ caller' = "none"
    /\ dv' = DvIdle
    /\ UNCHANGED <<ffmpegAvailable, disk, cli>>

(***************************************************************************)
(* The archive of lines 513-548.                                           *)
(***************************************************************************)
LastIndexOf(s, c) ==
    IF \E i \in 1..Len(s) : s[i] = c
    THEN CHOOSE i \in 1..Len(s) : s[i] = c /\ \A j \in (i + 1)..Len(s) : s[j] # c
    ELSE 0

\* Path(path_str): directory, stem and suffix of a relative path text
ParsePath(s) ==
    LET slash == LastIndexOf(s, "/")
        name == SubSeq(s, slash + 1, Len(s))
        dot == LastIndexOf(name, ".")
        cut == IF dot > 1 /\ dot < Len(name) THEN dot ELSE Len(name) + 1
    IN  Path(IF slash = 0 THEN <<".">> ELSE SubSeq(s, 1, slash - 1),
             SubSeq(name, 1, cut - 1), SubSeq(name, cut, Len(name)))

\* lines 513-520: the paths of the rows marked downloaded whose file exists
SuccessfulPaths(rows, d) ==
    LET Qualifies(row) ==
            /\ Lower(Strip(PyStr(row.status))) = DOWNLOADED
            /\ OrEmpty(row.path) # <<>>
            /\ Exists(d, ParsePath(OrEmpty(row.path)))
        kept == SelectSeq(rows, Qualifies)
    IN  [i \in 1..Len(kept) |-> ParsePath(kept[i].path.chars)]

FreeArcnameNoLoop(stem, suffix, counter, used) == stem \o <<"_", Digits[counter + 1]>> \o suffix

\* lines 533-541: the first "<stem>_<counter><suffix>" not used yet
RECURSIVE FreeArcname(_, _, _, _)
FreeArcname(stem, suffix, counter, used) ==
    LET candidate == stem \o <<"_", Digits[counter + 1]>> \o suffix
    IN  IF candidate \notin used THEN candidate
        ELSE FreeArcname(stem, suffix, counter + 1, used)

\* lines 530-546: one entry per path, in order; zf.write raises OSError for the
\* paths numbered in failed, which get a warning and no entry
RECURSIVE ArchiveEntries(_, _, _, _)
ArchiveEntries(paths, i, used, failed) ==
    IF i > Len(paths) THEN <<>>
    ELSE LET name == paths[i].stem \o paths[i].suffix
             arcname == IF name \in used
                        THEN FreeArcname(paths[i].stem, paths[i].suffix, 1, used)
                        ELSE name
             rest == ArchiveEntries(paths, i + 1, used \cup {arcname}, failed)
         IN  IF i \in failed THEN rest
             ELSE <<[path |-> paths[i], arcname |-> arcname]>> \o rest

\* lines 522-548: zip_bytes, None when no row qualifies; warned lists the paths
\* whose warning went to the log
BuildArchive(rows, d, failed) ==
    LET paths == SuccessfulPaths(rows, d)
    IN  IF paths = <<>> THEN None
        ELSE [kind |-> "zip", entries |-> ArchiveEntries(paths, 1, {}, failed),
              warned |-> [i \in 1..Cardinality(failed) |->
                             paths[CHOOSE k \in failed : Cardinality({j \in failed : j < k}) = i - 1]]]

\* _build_history_from_context, lines 588-590: str(row.get(status_column, "")).strip()
HistoryStatus(row) == Strip(PyStr(row.status))

\* lines 586-597: summary_counts over all the rows of the context
SummaryCounts(rows) ==
    LET Counted(names) ==
            Cardinality({i \in 1..Len(rows) : Lower(HistoryStatus(rows[i])) \in names})
    IN  [success |-> Counted(COMPLETED_STATUS_VALUES), failure |-> Counted({FAILED}),
         skipped |-> Counted({SKIPPED})]

\* lines 584-605, 629: processed_rows, one entry for every row whose status is
\* not empty, in row order
HistoryRows(rows) ==
    LET numbers == SelectSeq([i \in 1..Len(rows) |-> i],
                             LAMBDA i : HistoryStatus(rows[i]) # <<>>)
    IN  [k \in 1..Len(numbers) |->
            [Row |-> numbers[k], Status |-> HistoryStatus(rows[numbers[k]])]]

RemainingRowsOffByOne(total, next_row) ==
    IF total - next_row - 1 > 0 THEN total - next_row - 1 ELSE 0

\* line 557: max(0, total - context.get("next_row", total))
RemainingRows(total, next_row) == IF total - next_row > 0 THEN total - next_row ELSE 0

\* lines 469-575, then 960-965 (979-983): the cursor is set to the end unless
\* paused, the archive is built, the results are returned, the history of the
\* context replaces their results and counts (_update_batch_history, lines
\* 637-650), and a finished batch leaves the session
BatchFinish ==
    /\ batch.pc = "finish"
    /\ \E failed \in SUBSET (1..Len(SuccessfulPaths(batch.rows, disk))) :
       LET total == Len(batch.rows)
           next_row == IF ~batch.pause_triggered THEN total ELSE batch.next_row
           remaining_rows == RemainingRows(total, next_row)
       IN  batch' = [batch EXCEPT !.pc = "returned",
                                  !.zip = BuildArchive(batch.rows, disk, failed),
                                  !.has_results = TRUE,
                                  !.summary_counts = SummaryCounts(batch.rows),
                                  !.all_results = HistoryRows(batch.rows),
                                  !.next_row = next_row,
                                  !.remaining_rows = remaining_rows,
                                  !.paused_after = IF batch.pause_triggered THEN batch.pause_limit ELSE 0,
                                  !.loaded = (remaining_rows # 0)]
    /\ UNCHANGED <<ffmpegAvailable, disk, caller, dv, cli>>

InitBatch ==
    /\ ffmpegAvailable \in BOOLEAN
    /\ disk = <<>>
    /\ caller = "none"
    /\ dv = DvIdle
    /\ cli = CliIdle
    /\ batch = BatchIdle

NextBatch ==
    \/ BatchLoad
    \/ BatchContinue
    \/ BatchRowPolicy
    \/ BatchRowDownloaded
    \/ BatchRowRaised
    \/ BatchFinish
    \/ DvValidate
    \/ DvAttempt
    \/ DvClip
    \/ ExternalUnlink

SpecBatch == InitBatch /\ [][NextBatch]_vars

(***************************************************************************)
(* The archive as a function of the rows and the disk: the rows carry any  *)
(* stored status and path, the files exist or not.                         *)
(***************************************************************************)
ArchivePathTexts ==
    {<<"a","/","x",".","m","p","4">>, <<"b","/","x",".","m","p","4">>,
     <<"a","/","x","_","1",".","m","p","4">>}
ArchiveRowKinds ==
    {Row(Str(ExampleUrl), Blank, Blank, Blank, Str(status), Str(path)) :
        status \in {<<"D","o","w","n","l","o","a","d","e","d"," ">>, FAILED},
        path \in ArchivePathTexts \cup {<<>>}}

InitArchive ==
    /\ ffmpegAvailable = TRUE
    /\ \E files \in SUBSET {ParsePath(t) : t \in ArchivePathTexts} :
          disk = [p \in files |-> "data"]
    /\ caller = "none"
    /\ dv = DvIdle
    /\ cli = CliIdle
    /\ \E n \in 1..MaxArchiveRows : \E rows \in [1..n -> ArchiveRowKinds] :
          batch = [BatchIdle EXCEPT !.pc = "archive", !.rows = rows]

\* lines 513-548 applied to the rows and the disk
ArchiveApply ==
    /\ batch.pc = "archive"
    /\ \E failed \in SUBSET (1..Len(SuccessfulPaths(batch.rows, disk))) :
          batch' = [batch EXCEPT !.pc = "archived",
                                 !.zip = BuildArchive(batch.rows, disk, failed)]
    /\ UNCHANGED <<ffmpegAvailable, disk, caller, dv, cli>>

NextArchive == ArchiveApply

SpecArchive == InitArchive /\ [][NextArchive]_vars

(***************************************************************************)
(* CSV text, as the csv module of Python writes and reads it (dialect      *)
(* excel: delimiter ",", quote char ", doubled quotes, minimal quoting,    *)
(* line terminator CR LF).  EOL is the end-of-line mark the reader feeds   *)
(* itself after each line of its input.                                    *)
(***************************************************************************)
CR == "\r"
LF == "\n"
EOL == "EOL"
BOM == "BOM"

\* a writer that never quotes a field
WriteFieldUnquoted(cell, alone) == OrEmpty(cell)

\* csv.writer: one field; None is written as the empty text
WriteField(cell, alone) ==
    LET text == OrEmpty(cell)
        special == \E i \in 1..Len(text) : text[i] \in {",", "\"", CR, LF}
        Doubled[i \in 0..Len(text)] ==
            IF i = 0 THEN <<>>
            ELSE Doubled[i - 1] \o (IF text[i] = "\"" THEN <<"\"", "\"">> ELSE <<text[i]>>)
    IN  IF special \/ (alone /\ text = <<>>)
        THEN <<"\"">> \o Doubled[Len(text)] \o <<"\"">>
        ELSE text

\* csv.writer.writerow: the fields joined by commas, then CR LF
WriteRecord(cells) ==
    LET Joined[i \in 0..Len(cells)] ==
            IF i = 0 THEN <<>>
            ELSE Joined[i - 1] \o (IF i > 1 THEN <<",">> ELSE <<>>)
                               \o WriteField(cells[i], Len(cells) = 1)
    IN  Joined[Len(cells)] \o <<CR, LF>>

\* the lines StringIO yields: the text split after each LF
LinesOf(text) ==
    LET ends == SelectSeq([i \in 1..Len(text) |-> i],
                          LAMBDA i : text[i] = LF \/ i = Len(text))
    IN  [k \in 1..Len(ends) |->
            SubSeq(text, IF k = 1 THEN 1 ELSE ends[k - 1] + 1, ends[k])]

\* csv.reader: one character (or the EOL mark) fed to the parser p
ReaderStep(p, c) ==
    LET newline == c \in {CR, LF}
        saved == [p EXCEPT !.fields = Append(@, p.field), !.field = <<>>]
        ended(q) == [q EXCEPT !.state = "START_RECORD", !.records = Append(@, q.fields),
                              !.fields = <<>>]
        after_field(q) == IF c = EOL THEN ended(q) ELSE [q EXCEPT !.state = "EAT_CRNL"]
        added == [p EXCEPT !.field = Append(@, c)]
        start_field ==
            IF newline \/ c = EOL THEN after_field(saved)
            ELSE IF c = "\"" THEN [p EXCEPT !.state = "IN_QUOTED_FIELD"]
            ELSE IF c = "," THEN [saved EXCEPT !.state = "START_FIELD"]
            ELSE [added EXCEPT !.state = "IN_FIELD"]
    IN  IF p.error THEN p
        ELSE IF p.state = "START_RECORD"
        THEN IF c = EOL THEN p
             ELSE IF newline THEN [p EXCEPT !.state = "EAT_CRNL"]
             ELSE start_field
        ELSE IF p.state = "START_FIELD" THEN start_field
        ELSE IF p.state = "IN_FIELD"
        THEN IF newline \/ c = EOL THEN after_field(saved)
             ELSE IF c = "," THEN [saved EXCEPT !.state = "START_FIELD"]
             ELSE added
        ELSE IF p.state = "IN_QUOTED_FIELD"
        THEN IF c = EOL THEN p
             ELSE IF c = "\"" THEN [p EXCEPT !.state = "QUOTE_IN_QUOTED_FIELD"]
             ELSE added
        ELSE IF p.state = "QUOTE_IN_QUOTED_FIELD"
        THEN IF c = "\"" THEN [added EXCEPT !.state = "IN_QUOTED_FIELD"]
             ELSE IF c = "," THEN [saved EXCEPT !.state = "START_FIELD"]
             ELSE IF newline \/ c = EOL THEN after_field(saved)
             ELSE [added EXCEPT !.state = "IN_FIELD"]
        ELSE \* EAT_CRNL
             IF newline THEN p
             ELSE IF c = EOL THEN ended(p)
             ELSE [p EXCEPT !.error = TRUE]

\* csv.reader fed the characters lo .. hi of a line, in order; after an error
\* it reads no further
RECURSIVE Feed(_, _, _, _)
Feed(p, line, lo, hi) ==
    IF p.error \/ lo > hi THEN p
    ELSE IF lo = hi THEN ReaderStep(p, line[lo])
    ELSE Feed(Feed(p, line, lo, (lo + hi) \div 2), line, (lo + hi) \div 2 + 1, hi)

\* csv.reader fed one line and then the EOL mark
ReadLine(p, line) ==
    IF p.error THEN p ELSE ReaderStep(Feed(p, line, 1, Len(line)), EOL)

\* csv.reader over a text: the records (lists of fields), or an error; at the end
\* of the input an unfinished record is returned as it stands
ReadRecords(text) ==
    LET lines == LinesOf(text)
        start == [state |-> "START_RECORD", field |-> <<>>, fields |-> <<>>,
                  records |-> <<>>, error |-> FALSE]
        Read[k \in 0..Len(lines)] == IF k = 0 THEN start ELSE ReadLine(Read[k - 1], lines[k])
        last == Read[Len(lines)]
    IN  IF last.error THEN [error |-> TRUE, records |-> <<>>]
        ELSE IF last.state = "START_RECORD" THEN [error |-> FALSE, records |-> last.records]
        ELSE [error |-> FALSE, records |-> Append(last.records, Append(last.fields, last.field))]

(***************************************************************************)
(* The CSV loader (lines 886-956) and the updated CSV (lines 497-511).  A  *)
(* row is the dict csv.DictReader builds: a function from column names to  *)
(* cells, None for a cell the line does not have; the cells beyond the     *)
(* header are kept under the rest key.                                     *)
(***************************************************************************)
\* a CSV holds 1 .. MaxCsvRows data lines
MaxCsvRows == 2

STATUS_COLUMN == <<"D","o","w","n","l","o","a","d"," ","S","t","a","t","u","s">>
DETAIL_COLUMN == <<"D","o","w","n","l","o","a","d"," ","D","e","t","a","i","l">>
PATH_COLUMN == <<"D","o","w","n","l","o","a","d"," ","P","a","t","h">>
TIMESTAMP_COLUMN == <<"P","r","o","c","e","s","s","e","d"," ","A","t">>
UrlColumnNames == {<<"u","r","l">>, <<"l","i","n","k">>, <<"l","i","n","k","s">>}
RestKey == <<"restkey">>

\* csv_bytes.decode("utf-8-sig") and text.encode("utf-8-sig")
Decode(bytes) == IF bytes # <<>> /\ bytes[1] = BOM THEN Tail(bytes) ELSE bytes
Encode(text) == <<BOM>> \o text

\* csv.DictReader: the dict of one record under the field names; of two columns
\* with one name the later wins
DictOf(fieldnames, record) ==
    LET names == {fieldnames[i] : i \in 1..Len(fieldnames)}
        keys == names \cup (IF Len(record) > Len(fieldnames) THEN {RestKey} ELSE {})
        LastColumn(k) == CHOOSE i \in 1..Len(fieldnames) :
                            fieldnames[i] = k /\ \A j \in (i + 1)..Len(fieldnames) : fieldnames[j] # k
    IN  [k \in keys |->
            IF k \in names
            THEN IF LastColumn(k) <= Len(record) THEN Str(record[LastColumn(k)]) ELSE None
            ELSE [kind |-> "list", items |-> SubSeq(record, Len(fieldnames) + 1, Len(record))]]

\* row.get(key, default)
Get(row, key, default) == IF key \in DOMAIN row THEN row[key] ELSE default

\* next(col for col in fieldnames if col and col.strip().lower() in names), <<>>
\* when there is none
FirstColumn(fieldnames, names) ==
    LET found == SelectSeq(fieldnames, LAMBDA col : col # <<>> /\ Lower(Strip(col)) \in names)
    IN  IF found = <<>> THEN <<>> ELSE found[1]

\* _find_column(name) or name
FindColumn(fieldnames, name) ==
    LET found == FirstColumn(fieldnames, {Lower(name)})
    IN  IF found = <<>> THEN name ELSE found

\* lines 928-931: the header of the updated CSV
BaseFieldnames(fieldnames, columns) ==
    LET Added[i \in 0..Len(columns)] ==
            IF i = 0 THEN fieldnames
            ELSE IF \E j \in 1..Len(Added[i - 1]) : Added[i - 1][j] = columns[i]
            THEN Added[i - 1]
            ELSE Append(Added[i - 1], columns[i])
    IN  Added[Len(columns)]

\* lines 886-956: the batch context of an uploaded file, or why there is none
LoadCsv(bytes) ==
    LET read == ReadRecords(Decode(bytes))
        fieldnames == IF read.records = <<>> THEN <<>> ELSE read.records[1]
        url_column == FirstColumn(fieldnames, UrlColumnNames)
        records == SelectSeq(Tail(read.records), LAMBDA r : r # <<>>)
        status_column == FindColumn(fieldnames, STATUS_COLUMN)
        detail_column == FindColumn(fieldnames, DETAIL_COLUMN)
        path_column == FindColumn(fieldnames, PATH_COLUMN)
        timestamp_column == FindColumn(fieldnames, TIMESTAMP_COLUMN)
        failure(why) == [outcome |-> why]
    IN  IF bytes = <<>> THEN failure("Uploaded CSV file is empty.")
        ELSE IF read.error THEN failure("raised")
        ELSE IF fieldnames = <<>> THEN failure("CSV file has no header row to identify columns.")
        ELSE IF url_column = <<>>
        THEN failure("No column named URL, Link, or Links was found in the CSV header.")
        ELSE IF records = <<>> THEN failure("CSV did not contain any data rows.")
        ELSE [outcome |-> "loaded",
              rows |-> [i \in 1..Len(records) |-> DictOf(fieldnames, records[i])],
              fieldnames |-> BaseFieldnames(fieldnames, <<status_column, detail_column,
                                                         path_column, timestamp_column>>),
              url_column |-> url_column,
              skip_column |-> FirstColumn(fieldnames, {<<"s","k","i","p">>}),
              status_column |-> status_column, detail_column |-> detail_column,
              path_column |-> path_column, timestamp_column |-> timestamp_column,
              next_row |-> 0]

\* set_row_status (lines 295-300) on a dict row of the context
SetRowStatusIn(context, row, status, detail, path_text) ==
    [k \in (DOMAIN row) \cup {context.status_column, context.detail_column,
                              context.path_column, context.timestamp_column} |->
        IF k = context.timestamp_column THEN Str(ProcessedAt)
        ELSE IF k = context.path_column THEN Str(path_text)
        ELSE IF k = context.detail_column THEN Str(detail)
        ELSE IF k = context.status_column THEN Str(status)
        ELSE row[k]]

\* lines 508-509: row.setdefault(column_name, "") for the four columns
WithDefaults(context, row) ==
    [k \in (DOMAIN row) \cup {context.status_column, context.detail_column,
                              context.path_column, context.timestamp_column} |->
        IF k \in DOMAIN row THEN row[k] ELSE Str(<<>>)]

\* lines 503-511: the bytes of the updated CSV
UpdatedCsv(context) ==
    LET Line(row) == WriteRecord([i \in 1..Len(context.fieldnames) |->
                                    Get(row, context.fieldnames[i], Str(<<>>))])
        Lines[i \in 0..Len(context.rows)] ==
            IF i = 0 THEN WriteRecord([j \in 1..Len(context.fieldnames) |-> Str(context.fieldnames[j])])
            ELSE Lines[i - 1] \o Line(WithDefaults(context, context.rows[i]))
    IN  Encode(Lines[Len(context.rows)])

(***************************************************************************)
(* An uploaded CSV through the loader, one pass over its rows and the      *)
(* updated CSV, which is then uploaded again.  Which outcome a row gets is *)
(* decided by RowPolicy and download_video; here a pass gives any outcome  *)
(* to each row it reaches.                                                 *)
(***************************************************************************)
NoteName == <<"N","o","t","e">>
CsvHeaders ==
    {<<<<"U","R","L">>>>, <<NoteName, <<" ","L","i","n","k"," ">>>>, <<<<"U","R","L">>, <<"d","o","w","n","l","o","a","d"," ","s","t","a","t","u","s"," ">>, NoteName>>,
     <<<<"U","R","L">>, NoteName, NoteName>>}
SpecialText == <<"a", ",", "\"", LF>>
CsvCells == {<<>>, SpecialText}
SavedPathText == <<"d", "/", "a", ",", "\"", ".", "m", "p", "4">>
RowOutcomes ==
    {[status |-> FAILED, detail |-> <<"M","i","s","s","i","n","g"," ","U","R","L">>, path |-> <<>>],
     [status |-> DOWNLOADED, detail |-> <<"D","o","w","n","l","o","a","d"," ","s","u","c","c","e","s","s","f","u","l">>, path |-> SavedPathText]}

\* the text of a CSV file with this header and these lines
CsvText(header, records) ==
    LET Lines[i \in 0..Len(records)] ==
            IF i = 0 THEN WriteRecord([j \in 1..Len(header) |-> Str(header[j])])
            ELSE Lines[i - 1] \o (IF records[i] = <<>> THEN <<CR, LF>>
                                  ELSE WriteRecord([j \in 1..Len(records[i]) |-> Str(records[i][j])]))
    IN  Lines[Len(records)]

CsvIdle == [pc |-> "uploaded", header |-> <<>>, records |-> <<>>, upload |-> <<>>,
            context |-> [outcome |-> "none"], updated_csv |-> <<>>,
            reloaded |-> [outcome |-> "none"]]

InitCsv ==
    /\ ffmpegAvailable = TRUE
    /\ disk = << >>
    /\ caller = "none"
    /\ dv = DvIdle
    /\ cli = CliIdle
    /\ \E header \in CsvHeaders : \E n \in 1..MaxCsvRows :
       \E lengths \in [1..n -> 0..3] :
          /\ \A i \in 1..n : lengths[i] \in (Len(header) - 1)..(Len(header) + 1)
          /\ \E cells \in [1..n -> [1..3 -> CsvCells]] :
                LET records == [i \in 1..n |-> SubSeq(cells[i], 1, lengths[i])]
                IN  /\ \A i \in 1..n : \A j \in (lengths[i] + 1)..3 : cells[i][j] = <<>>
                    /\ batch = [CsvIdle EXCEPT !.header = header, !.records = records,
                                               !.upload = CsvText(header, records)]

\* lines 882-958: the form is submitted with the uploaded file
CsvSubmit ==
    /\ batch.pc = "uploaded"
    /\ LET context == LoadCsv(batch.upload)
       IN  batch' = [batch EXCEPT !.context = context,
                                  !.pc = IF context.outcome = "loaded" THEN "loaded"
                                         ELSE "rejected"]
    /\ UNCHANGED <<ffmpegAvailable, disk, caller, dv, cli>>

\* _process_batch on the context: the rows before stop get an outcome, then the
\* updated CSV is written (lines 503-511)
CsvProcessBatch ==
    /\ batch.pc = "loaded"
    /\ \E stop \in 0..Len(batch.context.rows) : \E outcomes \in [1..stop -> RowOutcomes] :
          LET context == batch.context
              rows == [i \in 1..Len(context.rows) |->
                          WithDefaults(context,
                              IF i <= stop
                              THEN SetRowStatusIn(context, context.rows[i], outcomes[i].status,
                                                  outcomes[i].detail, outcomes[i].path)
                              ELSE context.rows[i])]
              after == [context EXCEPT !.rows = rows, !.next_row = stop]
          IN  batch' = [batch EXCEPT !.pc = "processed", !.context = after,
                                     !.updated_csv = UpdatedCsv(after)]
    /\ UNCHANGED <<ffmpegAvailable, disk, caller, dv, cli>>

\* lines 882-958 again, on the updated CSV
CsvReload ==
    /\ batch.pc = "processed"
    /\ batch' = [batch EXCEPT !.pc = "reloaded", !.reloaded = LoadCsv(batch.updated_csv)]
    /\ UNCHANGED <<ffmpegAvailable, disk, caller, dv, cli>>

NextCsv ==
    \/ CsvSubmit
    \/ CsvProcessBatch
    \/ CsvReload

SpecCsv == InitCsv /\ [][NextCsv]_vars

(***************************************************************************)
(* The temporary cookies file of an invocation: the single download        *)
(* handler (lines 762-788) and _process_batch (lines 244-252, 483-495)     *)
(* write the uploaded cookies to a temporary file before their work and    *)
(* remove it in a finally block.  The work between the two is any number   *)
(* of steps, each of which may raise.                                      *)
(***************************************************************************)
CookieNames == {<<"c","o","o","k","i","e","s",".","t","x","t">>, <<"c",".","j","s","o","n">>, <<"c","o","o","k","i","e","s">>}
CookieBytes == {<<>>, <<"c">>}
TempDir == <<"/","t","m","p">>
TempStem == <<"t","m","p","0">>

CookieIdle == [pc |-> "enter", handler |-> "single", cookies_bytes |-> None,
               cookies_name |-> None, temp_cookie_path |-> None, created |-> None,
               work |-> 0, exception |-> FALSE, warned |-> FALSE, removed_by |-> "none"]

InitCookie ==
    /\ ffmpegAvailable = TRUE
    /\ disk = << >>
    /\ caller = "none"
    /\ dv = DvIdle
    /\ cli = CliIdle
    /\ \/ \E work \in 0..MaxRows :
            batch = [CookieIdle EXCEPT !.work = work, !.handler = IF work = 1 THEN "single" ELSE "batch"]
       \/ \E handler \in {"single", "batch"}, bytes \in CookieBytes, name \in CookieNames,
             work \in 0..MaxRows :
            /\ handler = "single" => work = 1
            /\ batch = [CookieIdle EXCEPT !.handler = handler, !.cookies_bytes = Str(bytes),
                                          !.cookies_name = Str(name), !.work = work]

\* Path(name).suffix or ".txt"
TempSuffix(name) ==
    LET suffix == ParsePath(name).suffix
    IN  IF suffix = <<>> THEN <<".","t","x","t">> ELSE suffix

\* lines 248-252 and 764-768: the cookies are written to a new temporary file;
\* creating the file or writing to it may fail
CookieWriteTemp ==
    /\ batch.pc = "enter"
    /\ LET wanted == IF batch.handler = "single" THEN ~ IsNone(batch.cookies_bytes)
                     ELSE ~ IsNone(batch.cookies_bytes) /\ batch.cookies_bytes.chars # <<>>
           path == Path(TempDir, TempStem, TempSuffix(batch.cookies_name.chars))
       IN  IF ~ wanted
           THEN /\ batch' = [batch EXCEPT !.pc = "body"]
                /\ UNCHANGED disk
           ELSE \/ /\ disk' = WriteFile(disk, path, batch.cookies_bytes.chars)
                   /\ batch' = [batch EXCEPT !.pc = "body", !.temp_cookie_path = path,
                                             !.created = path]
                \/ /\ disk' = WriteFile(disk, path, <<>>)
                   /\ batch' = [batch EXCEPT !.pc = "finally", !.created = path,
                                             !.exception = TRUE]
                \/ /\ batch' = [batch EXCEPT !.pc = "finally", !.exception = TRUE]
                   /\ UNCHANGED disk
    /\ UNCHANGED <<ffmpegAvailable, caller, dv, cli>>

\* one step of the work inside the try block (a download, a row): it ends or raises
CookieBody ==
    /\ batch.pc = "body"
    /\ IF batch.work = 0
       THEN batch' = [batch EXCEPT !.pc = "finally"]
       ELSE \/ batch' = [batch EXCEPT !.work = @ - 1]
            \/ batch' = [batch EXCEPT !.pc = "finally", !.exception = TRUE]
    /\ UNCHANGED <<ffmpegAvailable, disk, caller, dv, cli>>

\* another process removes the temporary file while the work runs
CookieExternalUnlink ==
    /\ batch.pc = "body"
    /\ ~ IsNone(batch.temp_cookie_path)
    /\ Exists(disk, batch.temp_cookie_path)
    /\ disk' = Unlink(disk, batch.temp_cookie_path)
    /\ batch' = [batch EXCEPT !.removed_by = "other"]
    /\ UNCHANGED <<ffmpegAvailable, caller, dv, cli>>

\* a finally block that removes the file only when no exception is pending
CookieFinallyOnReturnOnly ==
    /\ batch.pc = "finally"
    /\ IF ~ batch.exception /\ ~ IsNone(batch.temp_cookie_path)
          /\ Exists(disk, batch.temp_cookie_path)
       THEN /\ disk' = Unlink(disk, batch.temp_cookie_path)
            /\ batch' = [batch EXCEPT !.pc = "returned", !.removed_by = "finally"]
       ELSE /\ batch' = [batch EXCEPT !.pc = IF batch.exception THEN "raised" ELSE "returned"]
            /\ UNCHANGED disk
    /\ UNCHANGED <<ffmpegAvailable, caller, dv, cli>>

\* lines 491-495 and 784-788: the finally block; unlink may fail with OSError,
\* which is logged
CookieFinally ==
    /\ batch.pc = "finally"
    /\ LET exit == IF batch.exception THEN "raised" ELSE "returned"
       IN  IF ~ IsNone(batch.temp_cookie_path) /\ Exists(disk, batch.temp_cookie_path)
           THEN \/ /\ disk' = Unlink(disk, batch.temp_cookie_path)
                   /\ batch' = [batch EXCEPT !.pc = exit, !.removed_by = "finally"]
                \/ /\ batch' = [batch EXCEPT !.pc = exit, !.warned = TRUE]
                   /\ UNCHANGED disk
           ELSE /\ batch' = [batch EXCEPT !.pc = exit]
                /\ UNCHANGED disk
    /\ UNCHANGED <<ffmpegAvailable, caller, dv, cli>>

NextCookie ==
    \/ CookieWriteTemp
    \/ CookieBody
    \/ CookieExternalUnlink
    \/ CookieFinally

SpecCookie == InitCookie /\ [][NextCookie]_vars

(***************************************************************************)
(* The output template of download_video (lines 346-356) and the command   *)
(* line that carries it to yt-dlp (lines 216-239).                         *)
(***************************************************************************)
DEFAULT_TEMPLATE == <<"%","(","t","i","t","l","e",")","s",".","%","(","e","x","t",")","s">>
EXT_PLACEHOLDER == <<"%","(","e","x","t",")","s">>
FilenameStems == {<<"a">>, <<"m","y"," ","c","l","i","p">>, <<"/","a","b","s","/","c">>}
FilenameEndings == {<<>>, <<".","%","(","e","x","t",")","s">>, <<".","m","p","4">>, <<"%","(","e","x","t",")","s">>}
FilenameInputs ==
    {None, Str(<<>>)} \cup {Str(stem \o ending) : stem \in FilenameStems, ending \in FilenameEndings}
OutputDirs == {<<"d","o","w","n","l","o","a","d","s">>, <<"o","u","t","/","d","i","r">>}

\* str(output_dir / name): an absolute name replaces the directory
JoinPath(dir, name) == IF name # <<>> /\ name[1] = "/" THEN name ELSE dir \o <<"/">> \o name

\* line 355: str(output_dir / (filename or "%(title)s.%(ext)s"))
OutputTemplate(output_dir, filename) ==
    JoinPath(output_dir, IF IsNone(filename) \/ filename.chars = <<>> THEN DEFAULT_TEMPLATE
                         ELSE filename.chars)

\* a command that asks for the merged format whether or not ffmpeg is there
CliCommandBaseAlwaysMerged(url, template, use_ffmpeg) ==
    <<<<"y","t","-","d","l","p">>, url, <<"-","f">>, <<"b","v","*","+","b","a","/","b">>,
      <<"-","-","n","o","-","p","l","a","y","l","i","s","t">>, <<"-","-","n","o","-","w","r","i","t","e","-","i","n","f","o","-","j","s","o","n">>, <<"-","-","n","o","-","s","i","m","u","l","a","t","e">>, <<"-","-","n","o","-","a","b","o","r","t","-","o","n","-","e","r","r","o","r">>,
      <<"-","-","n","o","-","p","a","r","t">>, <<"-","-","f","o","r","c","e","-","o","v","e","r","w","r","i","t","e","s">>, <<"-","-","u","s","e","r","-","a","g","e","n","t">>, <<"_YOUTUBE_USER_AGENT">>,
      <<"-","-","e","x","t","r","a","c","t","o","r","-","a","r","g","s">>, <<"_YOUTUBE_EXTRACTOR_ARGS">>, <<"-","o">>, template,
      <<"-","-","p","r","i","n","t">>, <<"a","f","t","e","r","_","m","o","v","e",":","f","i","l","e","p","a","t","h">>>>

\* lines 216-239: the program and the first arguments of the yt-dlp command
CliCommandBase(url, template, use_ffmpeg) ==
    <<<<"y","t","-","d","l","p">>, url, <<"-","f">>, IF use_ffmpeg THEN <<"b","v","*","+","b","a","/","b">> ELSE <<"b","e","s","t">>,
      <<"-","-","n","o","-","p","l","a","y","l","i","s","t">>, <<"-","-","n","o","-","w","r","i","t","e","-","i","n","f","o","-","j","s","o","n">>, <<"-","-","n","o","-","s","i","m","u","l","a","t","e">>, <<"-","-","n","o","-","a","b","o","r","t","-","o","n","-","e","r","r","o","r">>,
      <<"-","-","n","o","-","p","a","r","t">>, <<"-","-","f","o","r","c","e","-","o","v","e","r","w","r","i","t","e","s">>, <<"-","-","u","s","e","r","-","a","g","e","n","t">>, <<"_YOUTUBE_USER_AGENT">>,
      <<"-","-","e","x","t","r","a","c","t","o","r","-","a","r","g","s">>, <<"_YOUTUBE_EXTRACTOR_ARGS">>, <<"-","o">>, template,
      <<"-","-","p","r","i","n","t">>, <<"a","f","t","e","r","_","m","o","v","e",":","f","i","l","e","p","a","t","h">>>>

TemplateIdle == [pc |-> "called", url |-> ExampleUrl, output_dir |-> <<>>, filename |-> None,
                 template |-> None, command |-> <<>>, result |-> None]

InitTemplate ==
    /\ ffmpegAvailable \in BOOLEAN
    /\ disk = << >>
    /\ caller = "library"
    /\ cli = CliIdle
    /\ batch = BatchIdle
    /\ \E output_dir \in OutputDirs, filename \in FilenameInputs :
          dv = [TemplateIdle EXCEPT !.output_dir = output_dir, !.filename = filename]

\* lines 345-356 and 433-441: the directory is made, the template is built and
\* put on the command line; when the directory cannot be made None is returned
TemplateApply ==
    /\ dv.pc = "called"
    /\ \E mkdir_ok \in BOOLEAN :
          IF mkdir_ok
          THEN LET template == OutputTemplate(dv.output_dir, dv.filename)
               IN  dv' = [dv EXCEPT !.pc = "command", !.template = Str(template),
                                    !.command = CliCommandBase(dv.url, template, ffmpegAvailable)]
          ELSE dv' = [dv EXCEPT !.pc = "returned"]
    /\ UNCHANGED <<ffmpegAvailable, disk, caller, cli, batch>>

NextTemplate == TemplateApply

SpecTemplate == InitTemplate /\ [][NextTemplate]_vars

(***************************************************************************)
(* The yt-dlp command lines of one download_video call: cookies and        *)
(* credentials are resolved (lines 357-376), then each pass of the attempt *)
(* loop builds its command with _build_cli_command (lines 205-260).  What  *)
(* a run does to the disk is in RunCliDownload; here a run ends well, with *)
(* the empty-file error or with another error.                             *)
(***************************************************************************)
FFMPEG_PATH == IF ffmpegAvailable THEN Str(<<"/","u","s","r","/","b","i","n","/","f","f","m","p","e","g">>) ELSE None
CookiesFile == Path(<<"/","t","m","p">>, <<"c","o","o","k","i","e","s">>, <<".","t","x","t">>)
UsernameInputs == {None, Str(<<>>), Str(<<"u","s","e","r">>)}
PasswordInputs == {None, Str(<<>>), Str(<<"s","e","c","r","e","t">>)}
CookiesInputs == {None, CookiesFile}
RunResults == {None, Str(EmptyFileMessage), Str(StderrForbidden)}

\* `if value:` for an Optional[str]
Given(value) == ~ IsNone(value) /\ value.chars # <<>>

\* a command that names the user only when a password comes with it
BuildCliCommandNeedsBoth(url, template, use_ffmpeg, cookies_path, username, password, extra_flags) ==
    CliCommandBase(url, template, use_ffmpeg)
        \o (IF use_ffmpeg
            THEN <<<<"-","-","m","e","r","g","e","-","o","u","t","p","u","t","-","f","o","r","m","a","t">>, <<"m","p","4">>>>
                     \o (IF Given(FFMPEG_PATH) THEN <<<<"-","-","f","f","m","p","e","g","-","l","o","c","a","t","i","o","n">>, FFMPEG_PATH.chars>>
                         ELSE <<>>)
            ELSE <<>>)
        \o (IF ~ IsNone(cookies_path) THEN <<<<"-","-","c","o","o","k","i","e","s">>, PathStr(cookies_path)>> ELSE <<>>)
        \o (IF Given(username) /\ Given(password)
            THEN <<<<"-","-","u","s","e","r","n","a","m","e">>, username.chars, <<"-","-","p","a","s","s","w","o","r","d">>, password.chars>>
            ELSE <<>>)
        \o extra_flags

\* lines 205-260: _build_cli_command
BuildCliCommand(url, template, use_ffmpeg, cookies_path, username, password, extra_flags) ==
    CliCommandBase(url, template, use_ffmpeg)
        \o (IF use_ffmpeg
            THEN <<<<"-","-","m","e","r","g","e","-","o","u","t","p","u","t","-","f","o","r","m","a","t">>, <<"m","p","4">>>>
                     \o (IF Given(FFMPEG_PATH) THEN <<<<"-","-","f","f","m","p","e","g","-","l","o","c","a","t","i","o","n">>, FFMPEG_PATH.chars>>
                         ELSE <<>>)
            ELSE <<>>)
        \o (IF ~ IsNone(cookies_path) THEN <<<<"-","-","c","o","o","k","i","e","s">>, PathStr(cookies_path)>> ELSE <<>>)
        \o (IF Given(username)
            THEN <<<<"-","-","u","s","e","r","n","a","m","e">>, username.chars>>
                     \o (IF Given(password) THEN <<<<"-","-","p","a","s","s","w","o","r","d">>, password.chars>> ELSE <<>>)
            ELSE <<>>)
        \o extra_flags

CommandIdle ==
    [pc |-> "called", url |-> ExampleUrl, template |-> OutputTemplate(OutputDir, None),
     username |-> None, password |-> None, cookies_path |-> None,
     resolved_cookies_path |-> None, auth_username |-> None, auth_password |-> None,
     password_ignored |-> FALSE, index |-> 0, last_error_message |-> None,
     commands |-> <<>>, result |-> None]

InitCommand ==
    /\ ffmpegAvailable \in BOOLEAN
    /\ disk \in {<< >>, [p \in {CookiesFile} |-> "cookies"]}
    /\ caller = "library"
    /\ cli = CliIdle
    /\ batch = BatchIdle
    /\ \E username \in UsernameInputs, password \in PasswordInputs, cookies_path \in CookiesInputs :
          dv = [CommandIdle EXCEPT !.username = username, !.password = password,
                                   !.cookies_path = cookies_path]

\* lines 357-376: a cookies file that does not exist is dropped; the password
\* is kept only beside a username
CommandResolve ==
    /\ dv.pc = "called"
    /\ dv' = [dv EXCEPT
                !.pc = "attempt",
                !.resolved_cookies_path =
                    IF ~ IsNone(dv.cookies_path) /\ Exists(disk, dv.cookies_path)
                    THEN dv.cookies_path ELSE None,
                !.auth_username = dv.username,
                !.auth_password = IF Given(dv.username) /\ Given(dv.password)
                                  THEN dv.password ELSE None,
                !.password_ignored = ~ Given(dv.username) /\ Given(dv.password)]
    /\ UNCHANGED <<ffmpegAvailable, disk, caller, cli, batch>>

\* lines 423-476: one pass of the attempt loop, with the command it builds
CommandAttempt ==
    /\ dv.pc = "attempt"
    /\ \E error_message \in RunResults :
          LET command == BuildCliCommand(dv.url, dv.template, ffmpegAvailable,
                                         dv.resolved_cookies_path, dv.auth_username,
                                         dv.auth_password,
                                         AttemptConfigs[dv.index + 1].extra_flags)
              built == [dv EXCEPT !.commands = Append(@, command)]
          IN  IF dv.index > 0 /\ ~ IsEmptyFileError(dv.last_error_message)
              THEN dv' = [dv EXCEPT !.pc = "returned", !.result = None]
              ELSE IF IsNone(error_message)
              THEN dv' = [built EXCEPT !.pc = "returned", !.result = TitlePath]
              ELSE IF ShouldRetry(dv.index, error_message) /\ dv.index + 1 < Len(AttemptConfigs)
              THEN dv' = [built EXCEPT !.index = @ + 1, !.last_error_message = error_message]
              ELSE dv' = [built EXCEPT !.pc = "returned", !.result = None,
                                       !.last_error_message = error_message]
    /\ UNCHANGED <<ffmpegAvailable, disk, caller, cli, batch>>

NextCommand ==
    \/ CommandResolve
    \/ CommandAttempt

SpecCommand == InitCommand /\ [][NextCommand]_vars

(***************************************************************************)
(* The columns _process_batch reads from a row (lines 324-441).  The CSV   *)
(* has a URL column, a clip start column, a clip end column and a media    *)
(* type column under one of several spellings of their names; the form is  *)
(* submitted and the first row is processed up to the call it makes.       *)
(***************************************************************************)
CLIP_START_KEY == <<"C","l","i","p"," ","S","t","a","r","t"," ","T","i","m","e">>
CLIP_END_KEY == <<"C","l","i","p"," ","E","n","d"," ","T","i","m","e">>
\* the spellings of the clip columns: <<start name, end name>>
ClipColumnNames ==
    {<<CLIP_START_KEY, CLIP_END_KEY>>,
     <<<<"c","l","i","p"," ","s","t","a","r","t"," ","t","i","m","e">>, <<"c","l","i","p"," ","e","n","d"," ","t","i","m","e">>>>,
     <<<<" ","C","l","i","p"," ","S","t","a","r","t"," ","T","i","m","e">>, <<"C","l","i","p"," ","E","n","d"," ","T","i","m","e"," ">>>>,
     <<<<"S","t","a","r","t">>, <<"E","n","d">>>>,
     <<<<"S","t","a","r","t"," ","T","i","m","e">>, <<"E","n","d"," ","T","i","m","e">>>>,
     <<<<"C","l","i","p"," ","S","t","a","r","t">>, <<"C","l","i","p"," ","E","n","d">>>>}
TypeColumnNames == {<<"D","o","w","n","l","o","a","d"," ","T","y","p","e">>, <<"T","y","p","e">>, <<"m","e","d","i","a"," ","t","y","p","e">>}
TypeCells == {<<"a","u","d","i","o">>, <<" ","A","u","d","i","o"," ">>, <<"v","i","d","e","o">>, <<>>}
ClipCells == {<<>>, <<"0",":","0","1">>, <<"2">>}

\* lines 329-395: the cells the row policy reads from a dict row
RowOf(context, row) ==
    Row(Get(row, context.url_column, None),
        IF context.skip_column = <<>> THEN Blank ELSE Get(row, context.skip_column, Blank),
        Get(row, CLIP_START_KEY, None),
        Get(row, CLIP_END_KEY, None),
        Get(row, context.status_column, Blank),
        Get(row, context.path_column, None))

\* lines 329-441: the call the first row of the context leads to, none when the
\* row is skipped or failed
RowCall(context, available) ==
    LET decision == RowPolicy(RowOf(context, context.rows[1]), FALSE, available)
    IN  IF decision.kind = "download"
        THEN [function |-> "download_video", url |-> decision.url,
              clip_start |-> decision.clip_start, clip_end |-> decision.clip_end]
        ELSE [function |-> "none", url |-> decision.url,
              clip_start |-> decision.clip_start, clip_end |-> decision.clip_end]

ColumnsIdle == [pc |-> "uploaded", names |-> <<>>, type_name |-> <<>>, cells |-> <<>>,
                upload |-> <<>>, context |-> [outcome |-> "none"],
                decision |-> [kind |-> "none"], call |-> [function |-> "none"]]

InitColumns ==
    /\ ffmpegAvailable \in BOOLEAN
    /\ disk = << >>
    /\ caller = "none"
    /\ dv = DvIdle
    /\ cli = CliIdle
    /\ \E names \in ClipColumnNames : \E type_name \in TypeColumnNames :
       \E start \in ClipCells : \E end \in ClipCells : \E type \in TypeCells :
          LET header == <<<<"U","R","L">>, names[1], names[2], type_name>>
              cells == <<ExampleUrl, start, end, type>>
          IN  batch = [ColumnsIdle EXCEPT !.names = names, !.type_name = type_name,
                                          !.cells = cells,
                                          !.upload = Encode(CsvText(header, <<cells>>))]

\* lines 882-958: the form is submitted with the uploaded file
ColumnsSubmit ==
    /\ batch.pc = "uploaded"
    /\ LET context == LoadCsv(batch.upload)
       IN  batch' = [batch EXCEPT !.context = context,
                                  !.pc = IF context.outcome = "loaded" THEN "loaded"
                                         ELSE "rejected"]
    /\ UNCHANGED <<ffmpegAvailable, disk, caller, dv, cli>>

\* lines 324-441: the first row is processed up to the call it makes
ColumnsProcessRow ==
    /\ batch.pc = "loaded"
    /\ batch' = [batch EXCEPT
                    !.pc = "called",
                    !.decision = RowPolicy(RowOf(batch.context, batch.context.rows[1]),
                                           FALSE, ffmpegAvailable),
                    !.call = RowCall(batch.context, ffmpegAvailable)]
    /\ UNCHANGED <<ffmpegAvailable, disk, caller, dv, cli>>

NextColumns == ColumnsSubmit \/ ColumnsProcessRow

SpecColumns == InitColumns /\ [][NextColumns]_vars

(***************************************************************************)
(* The command line as it is logged (_sanitize_cli_args, lines 190-202,    *)
(* called at line 282).  Two download_video calls that differ in nothing   *)
(* but the password are followed side by side: each builds the command of  *)
(* an attempt and logs its sanitized form.                                 *)
(***************************************************************************)
MASK == <<"*","*","*">>
SanitizedUsernames == {None, Str(<<"u","s","e","r">>), Str(<<"-","-","p","a","s","s","w","o","r","d">>)}
SanitizedPasswords == {None, Str(<<"s","e","c","r","e","t">>), Str(<<"h","u","n","t","e","r","2">>), Str(<<"-","-","p","a","s","s","w","o","r","d">>)}

\* one pass of the loop of _sanitize_cli_args
SanitizeStep(pass, item) ==
    IF pass.mask_next
    THEN [sanitized |-> Append(pass.sanitized, MASK), mask_next |-> FALSE]
    ELSE [sanitized |-> Append(pass.sanitized, item), mask_next |-> (item = <<"-","-","p","a","s","s","w","o","r","d">>)]

\* _sanitize_cli_args(args)
SanitizeCliArgs(args) ==
    LET Pass[i \in 0..Len(args)] ==
            IF i = 0 THEN [sanitized |-> <<>>, mask_next |-> FALSE]
            ELSE SanitizeStep(Pass[i - 1], args[i])
    IN  Pass[Len(args)].sanitized

SanitizeIdle ==
    [pc |-> "called", username |-> None, password |-> None, other_password |-> None,
     cookies_path |-> None, index |-> 0,
     command |-> <<>>, logged |-> <<>>, other_command |-> <<>>, other_logged |-> <<>>]

InitSanitize ==
    /\ ffmpegAvailable \in BOOLEAN
    /\ disk = [p \in {CookiesFile} |-> "cookies"]
    /\ caller = "library"
    /\ cli = CliIdle
    /\ batch = BatchIdle
    /\ \E username \in SanitizedUsernames, password \in SanitizedPasswords,
          other_password \in SanitizedPasswords, cookies_path \in CookiesInputs :
          dv = [SanitizeIdle EXCEPT !.username = username, !.password = password,
                                    !.other_password = other_password,
                                    !.cookies_path = cookies_path]

\* lines 367-376, 433-441 and 280-283: the command of an attempt, given the
\* password, and the text that is logged for it
AttemptCommand(password, index) ==
    BuildCliCommand(ExampleUrl, OutputTemplate(OutputDir, None), ffmpegAvailable,
                    dv.cookies_path, dv.username,
                    IF Given(dv.username) /\ Given(password) THEN password ELSE None,
                    AttemptConfigs[index + 1].extra_flags)

\* one attempt of each of the two calls: the command is built and logged
SanitizeAttempt ==
    /\ dv.pc \in {"called", "attempt"}
    /\ dv.index < Len(AttemptConfigs)
    /\ dv' = [dv EXCEPT !.pc = "attempt", !.index = @ + 1,
                        !.command = AttemptCommand(dv.password, dv.index),
                        !.logged = SanitizeCliArgs(AttemptCommand(dv.password, dv.index)),
                        !.other_command = AttemptCommand(dv.other_password, dv.index),
                        !.other_logged =
                            SanitizeCliArgs(AttemptCommand(dv.other_password, dv.index))]
    /\ UNCHANGED <<ffmpegAvailable, disk, caller, cli, batch>>

\* the calls return
SanitizeReturn ==
    /\ dv.pc = "attempt"
    /\ dv' = [dv EXCEPT !.pc = "returned"]
    /\ UNCHANGED <<ffmpegAvailable, disk, caller, cli, batch>>

NextSanitize == SanitizeAttempt \/ SanitizeReturn

SpecSanitize == InitSanitize /\ [][NextSanitize]_vars

(***************************************************************************)
(* The session of the app over its reruns (lines 823-824, 865-872,         *)
(* 877-985).  A rerun is one action: the script runs from the top, one of  *)
(* the two buttons may have been clicked, and the handler of that button   *)
(* runs _process_batch to its end.  The rows are followed by their number  *)
(* only: a row is processed and recorded, or its processing raises and the *)
(* exception leaves the script.                                            *)
(***************************************************************************)
MaxSessionRows == 4

\* the session state: batch_context (has_context, total = len(rows), next_row),
\* batch_results (has_results, remaining_rows), and what the last rerun did:
\* the handler that ran, whether _process_batch returned, the rows it went
\* through, whether it raised, whether the continue handler warned
SessionIdle ==
    [has_context |-> FALSE, total |-> 0, next_row |-> 0,
     has_results |-> FALSE, remaining_rows |-> 0,
     handler |-> "none", returned |-> FALSE, processed_in_run |-> 0,
     raised |-> FALSE, warning |-> FALSE, processing_triggered |-> FALSE]

InitSession ==
    /\ ffmpegAvailable \in BOOLEAN
    /\ disk = << >>
    /\ caller = "none"
    /\ dv = DvIdle
    /\ cli = CliIdle
    /\ batch = SessionIdle

BatchLockedNever(s) == FALSE

\* line 824: bool(batch_context and batch_context.get("next_row", 0) > 0)
BatchLocked(s) == s.has_context /\ s.next_row > 0

\* lines 166-191: the continue controls are part of the displayed results and
\* are shown while the results say that rows remain
ContinueOffered(s) == s.has_results /\ s.remaining_rows # 0

\* the loop of _process_batch, lines 324-467: the row is counted, then raises or
\* is recorded (context["next_row"] = zero_idx + 1) and the pause limit is looked at
RECURSIVE SessionLoop(_, _, _, _, _, _)
SessionLoop(total, pause_limit, raise_at, zero_idx, processed_in_run, next_row) ==
    IF zero_idx >= total
    THEN [next_row |-> next_row, pause_triggered |-> FALSE, raised |-> FALSE,
          processed_in_run |-> processed_in_run]
    ELSE IF zero_idx + 1 = raise_at
    THEN [next_row |-> next_row, pause_triggered |-> FALSE, raised |-> TRUE,
          processed_in_run |-> processed_in_run + 1]
    ELSE IF PauseReached(pause_limit, processed_in_run + 1)
    THEN [next_row |-> zero_idx + 1, pause_triggered |-> TRUE, raised |-> FALSE,
          processed_in_run |-> processed_in_run + 1]
    ELSE SessionLoop(total, pause_limit, raise_at, zero_idx + 1, processed_in_run + 1,
                     zero_idx + 1)

\* _process_batch on the context of the session, lines 222-228, 324-470, 557,
\* and the lines after the call (960-965, 978-983): the results are stored and
\* the context of a batch without remaining rows is popped
SessionProcess(s, handler, pause_limit, raise_at) ==
    LET start_index == IF s.next_row < s.total THEN s.next_row ELSE s.total
        loop == SessionLoop(s.total, pause_limit, raise_at, start_index, 0, start_index)
        next_row == IF loop.pause_triggered THEN loop.next_row ELSE s.total
        remaining_rows == RemainingRows(s.total, next_row)
    IN  IF loop.raised
        THEN [s EXCEPT !.next_row = loop.next_row, !.handler = handler,
                       !.returned = FALSE, !.raised = TRUE, !.warning = FALSE,
                       !.processed_in_run = loop.processed_in_run,
                       !.processing_triggered = FALSE]
        ELSE [s EXCEPT !.next_row = next_row, !.handler = handler,
                       !.returned = TRUE, !.raised = FALSE, !.warning = FALSE,
                       !.processed_in_run = loop.processed_in_run,
                       !.has_results = TRUE, !.remaining_rows = remaining_rows,
                       !.processing_triggered = TRUE,
                       !.has_context = (remaining_rows # 0)]

\* a rerun in which "Download URLs from CSV" was clicked (lines 865-872, 882-965);
\* the button is not drawn for a locked batch; a CSV without data rows is
\* answered by a warning and the session keeps what it had
SessionStart ==
    /\ ~BatchLocked(batch)
    /\ \E total \in 0..MaxSessionRows, pause_after \in 0..MaxPause,
          raise_at \in 0..MaxSessionRows :
         batch' = IF total = 0
                  THEN [batch EXCEPT !.handler = "start", !.returned = FALSE,
                                     !.raised = FALSE, !.warning = FALSE,
                                     !.processed_in_run = 0,
                                     !.processing_triggered = FALSE]
                  ELSE SessionProcess([batch EXCEPT !.has_context = TRUE, !.total = total,
                                                    !.next_row = 0],
                                      "start", pause_after, raise_at)
    /\ UNCHANGED <<ffmpegAvailable, disk, caller, dv, cli>>

\* a rerun in which "Continue batch" was clicked (lines 166-191, 967-985): the
\* chunk size is between 1 and the remaining rows of the displayed results
SessionContinue ==
    /\ ContinueOffered(batch)
    /\ \E next_chunk \in 1..batch.remaining_rows, raise_at \in 0..MaxSessionRows :
         batch' = IF batch.has_context
                  THEN SessionProcess(batch, "continue", next_chunk, raise_at)
                  ELSE [batch EXCEPT !.handler = "continue", !.returned = FALSE,
                                     !.raised = FALSE, !.warning = TRUE,
                                     !.processed_in_run = 0,
                                     !.processing_triggered = FALSE]
    /\ UNCHANGED <<ffmpegAvailable, disk, caller, dv, cli>>

\* a rerun without a click on either button: nothing is processed
SessionRerun ==
    /\ batch' = [batch EXCEPT !.handler = "none", !.returned = FALSE, !.raised = FALSE,
                              !.warning = FALSE, !.processed_in_run = 0,
                              !.processing_triggered = FALSE]
    /\ UNCHANGED <<ffmpegAvailable, disk, caller, dv, cli>>

NextSession ==
    \/ SessionStart
    \/ SessionContinue
    \/ SessionRerun

SpecSession == InitSession /\ [][NextSession]_vars

(***************************************************************************)
(* Passes over one CSV with skip_completed on: a pass loads the uploaded   *)
(* file (lines 882-958), _process_batch goes over all its rows (pause      *)
(* limit 0), and the updated CSV it writes (lines 497-511) is the upload   *)
(* of the next pass.  The rows passed to download_video are followed.      *)
(***************************************************************************)
MaxPasses == 3

PassUrlCells == {ExampleUrl, <<>>}

\* the session between passes: the uploaded bytes, the context of the pass, the
\* rows downloaded by some earlier pass (once) and by the pass before (before),
\* the rows the last pass gave to download_video (calls), and those among them
\* that an earlier pass had downloaded (again)
PassIdle ==
    [pc |-> "uploaded", upload |-> <<>>, context |-> [outcome |-> "none"], passes |-> 0,
     once |-> {}, before |-> {}, calls |-> {}, again |-> {}]

InitPasses ==
    /\ ffmpegAvailable \in BOOLEAN
    /\ disk = << >>
    /\ caller = "none"
    /\ dv = DvIdle
    /\ cli = CliIdle
    /\ \E n \in 1..MaxCsvRows : \E urls \in [1..n -> PassUrlCells] :
          batch = [PassIdle EXCEPT
                      !.upload = Encode(CsvText(<<<<"U","R","L">>, NoteName>>,
                                                [i \in 1..n |-> <<urls[i], <<>>>>]))]

\* lines 882-958: the form is submitted with the uploaded file
PassSubmit ==
    /\ batch.pc = "uploaded"
    /\ batch.passes < MaxPasses
    /\ LET context == LoadCsv(batch.upload)
       IN  batch' = [batch EXCEPT !.context = context,
                                  !.pc = IF context.outcome = "loaded" THEN "loaded"
                                         ELSE "rejected"]
    /\ UNCHANGED <<ffmpegAvailable, disk, caller, dv, cli>>

\* lines 329-432 for every row of the context: what the policy decides with
\* skip_completed on
PassDecisions(context, available) ==
    [i \in 1..Len(context.rows) |-> RowPolicy(RowOf(context, context.rows[i]), TRUE, available)]

\* lines 329-467 for one row: the row as the pass leaves it; saved tells whether
\* download_video returns a path for it
PassRow(context, row, decision, saved) ==
    IF decision.kind = "download"
    THEN IF saved
         THEN SetRowStatusIn(context, row, DOWNLOADED, PathStr(TitlePath), PathStr(TitlePath))
         ELSE SetRowStatusIn(context, row, FAILED, <<"Download failed.">>, <<>>)
    ELSE IF decision.kind = "skipped"
    THEN SetRowStatusIn(context, row, SKIPPED, decision.detail, <<>>)
    ELSE IF decision.kind = "failed"
    THEN SetRowStatusIn(context, row, FAILED, decision.detail, <<>>)
    ELSE row

\* the loop of _process_batch(context, 0, True), lines 324-470: the rows given to
\* download_video, those it saved, and the context after the last row
PassLoop(context, decisions, saved) ==
    LET n == Len(context.rows)
        calls == {i \in 1..n : decisions[i].kind = "download"}
    IN  [calls |-> calls,
         downloaded |-> calls \cap saved,
         raised |-> \E i \in 1..n : decisions[i].kind = "raise",
         after |-> [context EXCEPT
                       !.rows = [i \in 1..n |-> PassRow(context, context.rows[i], decisions[i],
                                                        i \in saved)],
                       !.next_row = n]]

\* lines 497-511 and the upload that follows: the updated CSV is the file of the
\* next pass; a pass that raised leaves no updated CSV
PassReturn(b, loop) ==
    IF loop.raised
    THEN [b EXCEPT !.pc = "raised"]
    ELSE [b EXCEPT !.pc = "uploaded",
                   !.context = loop.after,
                   !.upload = UpdatedCsv(loop.after),
                   !.passes = @ + 1,
                   !.calls = loop.calls,
                   !.again = loop.calls \cap b.once,
                   !.before = loop.downloaded,
                   !.once = @ \cup loop.downloaded]

\* _process_batch(context, 0, True) and the updated CSV, which is uploaded next;
\* saved are the rows for which download_video returns a path when called
PassProcess ==
    /\ batch.pc = "loaded"
    /\ \E saved \in SUBSET (1..Len(batch.context.rows)) :
          batch' = PassReturn(batch, PassLoop(batch.context,
                                              PassDecisions(batch.context, ffmpegAvailable),
                                              saved))
    /\ UNCHANGED <<ffmpegAvailable, disk, caller, dv, cli>>

NextPasses == PassSubmit \/ PassProcess

SpecPasses == InitPasses /\ [][NextPasses]_vars

(***************************************************************************)
(* Properties of download_video and of the CLI, checked under Spec.        *)
(***************************************************************************)
\* the runs of the extraction collaborator started by the current call, in order
ExtractionRuns == SelectSeq(dv.events, LAMBDA e : e.run # "ffmpeg")
\* the runs of the trim collaborator started by the current call
TrimRuns == SelectSeq(dv.events, LAMBDA e : e.run = "ffmpeg")
\* the message contains "downloaded file is empty", in any case
MentionsEmptyFile(message) == Contains(Lower(message.chars), EMPTY_FILE_NEEDLE)
\* the call is past its attempt loop
LoopLeft == dv.pc \in {"clip", "returned", "raised"}
\* the last extraction attempt produced a file
ExtractionSucceeded ==
    Len(ExtractionRuns) >= 1 /\ ExtractionRuns[Len(ExtractionRuns)].outcome = "ok"
\* clip bounds were given and passed validation
BoundsRequested == ~IsNone(dv.clip_start_seconds) \/ ~IsNone(dv.clip_end_seconds)

\* C1: when the initial attempt fails with a message containing "downloaded file
\* is empty" (any case), exactly one further attempt, the ipv4 one, is made; when
\* that one fails too the call returns None; no call runs more than two attempts.
C1_EmptyFileFallbackOnce ==
    LET runs == ExtractionRuns
    IN  /\ Len(runs) <= 2
        /\ (LoopLeft /\ Len(runs) >= 1 /\ runs[1].outcome = "failed"
              /\ MentionsEmptyFile(runs[1].message))
             => (Len(runs) = 2 /\ runs[1].run = "initial" /\ runs[2].run = "ipv4")
        /\ (Len(runs) = 2 /\ runs[2].outcome = "failed")
             => (dv.pc = "returned" /\ IsNone(dv.result))

\* C1 witness: two consecutive empty-file failures (the first in mixed case), then None
C1_Witness ==
    /\ dv.pc = "returned"
    /\ Len(ExtractionRuns) = 2
    /\ ExtractionRuns[1].message = Str(StderrEmptyFileCaps)
    /\ ExtractionRuns[2].outcome = "failed"
    /\ MentionsEmptyFile(ExtractionRuns[2].message)
    /\ IsNone(dv.result)

\* C2: when the initial attempt fails with a message that does not contain
\* "downloaded file is empty", the collaborator has run exactly once and the call
\* returns None.
C2_OtherErrorIsTerminal ==
    LET runs == ExtractionRuns
    IN  (Len(runs) >= 1 /\ runs[1].outcome = "failed" /\ ~MentionsEmptyFile(runs[1].message))
          => (Len(runs) = 1 /\ dv.pc = "returned" /\ IsNone(dv.result))

\* C2 witness: an HTTP 403 on the initial attempt
C2_Witness ==
    /\ dv.pc = "returned"
    /\ Len(ExtractionRuns) = 1
    /\ ExtractionRuns[1].message = Str(StderrForbidden)

\* the trim step failed in one of the three ways C3 names
TrimFailed ==
    \/ Len(TrimRuns) = 1 /\ TrimRuns[1].outcome \in {"exit_nonzero", "replace_failed"}
    \/ ffmpegAvailable /\ Len(TrimRuns) = 0 /\ ~Exists(disk, dv.file_path)

\* C3: after a successful extraction with clip bounds requested, a failed trim
\* (ffmpeg exits non-zero, the source is missing, the rename-over fails) makes
\* the call return None, never the path of the downloaded original.
C3_FailedTrimInvalidatesResult ==
    (dv.pc = "returned" /\ ExtractionSucceeded /\ BoundsRequested /\ TrimFailed)
       => IsNone(dv.result)

\* C3 witnesses: each of the three failures has happened
C3_Witness ==
    /\ dv.pc = "returned" /\ ExtractionSucceeded /\ BoundsRequested
    /\ Len(TrimRuns) = 1 /\ TrimRuns[1].outcome = "exit_nonzero"

C3_WitnessSourceMissing ==
    /\ dv.pc = "returned" /\ ExtractionSucceeded /\ BoundsRequested
    /\ ffmpegAvailable /\ Len(TrimRuns) = 0 /\ ~Exists(disk, dv.file_path)

C3_WitnessReplaceFailed ==
    /\ dv.pc = "returned" /\ ExtractionSucceeded /\ BoundsRequested
    /\ Len(TrimRuns) = 1 /\ TrimRuns[1].outcome = "replace_failed"

\* both clip bounds were given as numbers
BothNumeric == dv.clip_start.kind = "float" /\ dv.clip_end.kind = "float"
\* the validation of lines 378-407 has run (the output directory could be created)
ValidationRan == dv.pc \notin {"idle", "validate"} /\ dv.error # MkdirError
ClipValidationErrors ==
    {StartInvalidError, StartNegativeError, EndInvalidError, EndNotPositiveError,
     EndNotAfterStartError}
\* the call was rejected by validation: None, and no collaborator was started
RejectedByValidation ==
    /\ dv.pc = "returned" /\ IsNone(dv.result) /\ dv.events = <<>>
    /\ dv.error \in ClipValidationErrors

\* C4 as stated: every pair with end <= start is rejected with the reason
\* "end must be greater than start"
C4_Original ==
    (BothNumeric /\ ValidationRan) =>
       /\ (0 <= dv.clip_start.val /\ dv.clip_start.val < dv.clip_end.val)
             => dv.error \notin ClipValidationErrors
       /\ (dv.clip_end.val <= dv.clip_start.val)
             => (RejectedByValidation /\ dv.error = EndNotAfterStartError)

\* C4 (amended): validation passes for every pair 0 <= start < end; every pair with
\* end <= start is rejected and the call returns None; the reason is "end must be
\* greater than start" when start >= 0 and end > 0, "start must be zero or
\* positive" when start < 0, and "end must be greater than zero" otherwise.
C4_ClipPairValidation ==
    (BothNumeric /\ ValidationRan) =>
       /\ (0 <= dv.clip_start.val /\ dv.clip_start.val < dv.clip_end.val)
             => dv.error \notin ClipValidationErrors
       /\ (dv.clip_end.val <= dv.clip_start.val)
             => /\ RejectedByValidation
                /\ dv.error = IF dv.clip_start.val < 0 THEN StartNegativeError
                              ELSE IF dv.clip_end.val <= 0 THEN EndNotPositiveError
                              ELSE EndNotAfterStartError

\* C4 witness: equal positive bounds, rejected with the end-after-start reason
C4_Witness ==
    /\ BothNumeric /\ dv.clip_start.val = 1 /\ dv.clip_end.val = 1
    /\ RejectedByValidation /\ dv.error = EndNotAfterStartError

\* C5: a call with clip_start < 0, or with clip_end <= 0, returns None whatever
\* the other bound is (absent, valid or invalid).
C5_SignValidation ==
    (/\ dv.pc \notin {"idle", "validate"}
     /\ \/ dv.clip_start.kind = "float" /\ dv.clip_start.val < 0
        \/ dv.clip_end.kind = "float" /\ dv.clip_end.val <= 0)
       => (dv.pc = "returned" /\ IsNone(dv.result) /\ dv.events = <<>>)

\* C5 witness: end = 0 with no start, rejected
C5_Witness ==
    /\ IsNone(dv.clip_start) /\ dv.clip_end = Float(0)
    /\ RejectedByValidation /\ dv.error = EndNotPositiveError

C5_WitnessStart ==
    /\ dv.clip_start = Float(-1) /\ IsNone(dv.clip_end)
    /\ RejectedByValidation /\ dv.error = StartNegativeError

C7_NoExceptionPropagates == dv.pc # "raised"

\* C8: the CLI process ends with status 0 and the path on stdout if and only if
\* download_video returned a path; otherwise it ends with status 1 and nothing
\* on stdout.
C8_ExitCodeMatchesResult ==
    (cli.pc \in {"exited", "crashed"}) =>
       IF dv.pc = "returned" /\ ~IsNone(dv.result)
       THEN cli.exit_code = 0 /\ cli.stdout = <<dv.result>>
       ELSE cli.exit_code = 1 /\ cli.stdout = <<>>

\* C8 witnesses: a run that printed the path, and a run that failed
C8_Witness ==
    cli.pc = "exited" /\ cli.exit_code = 0 /\ cli.stdout = <<TitlePath>>

C8_WitnessFailure ==
    cli.pc = "exited" /\ cli.exit_code = 1 /\ dv.pc = "returned" /\ IsNone(dv.result)

(***************************************************************************)
(* Properties of _process_batch, checked under SpecBatch.                  *)
(***************************************************************************)
\* the rows whose pass of the loop has completed in this invocation
ProcessedRows == {batch.results[i].Row : i \in 1..Len(batch.results)}
InvocationEnded == batch.pc \in {"finish", "returned", "raised"}
\* min(c + N, T) for the invocation in progress
ChunkEnd ==
    IF batch.start_index + batch.pause_limit < Len(batch.rows)
    THEN batch.start_index + batch.pause_limit
    ELSE Len(batch.rows)

\* C9: one invocation of _process_batch processes the rows in increasing index
\* order starting at the cursor, passes over none, touches no row before the
\* cursor (nor any row it has not reached), and stops only when the positive
\* pause limit has been reached or every row has been processed.
C9_InOrderUntilPauseOrEnd ==
    /\ \A i \in 1..Len(batch.results) : batch.results[i].Row = batch.start_index + i
    /\ \A j \in 1..Len(batch.rows) :
          (j <= batch.start_index \/ j > batch.start_index + Len(batch.results))
              => batch.rows[j] = batch.entry_rows[j]
    /\ InvocationEnded =>
          \/ PauseReached(batch.pause_limit, Len(batch.results))
          \/ batch.start_index + Len(batch.results) = Len(batch.rows)

\* what remains of C9 when the invocation returns: the order, the untouched rows,
\* and the stop at the pause limit or at the end
C9_WhenInvocationReturns ==
    /\ \A i \in 1..Len(batch.results) : batch.results[i].Row = batch.start_index + i
    /\ \A j \in 1..Len(batch.rows) :
          (j <= batch.start_index \/ j > batch.start_index + batch.processed_in_run)
              => batch.rows[j] = batch.entry_rows[j]
    /\ batch.pc \in {"finish", "returned"} =>
          \/ PauseReached(batch.pause_limit, Len(batch.results))
          \/ batch.start_index + Len(batch.results) = Len(batch.rows)

\* C10: with T rows, cursor c and a positive pause limit N, an invocation that has
\* ended has processed exactly the rows c+1 .. min(c+N, T), has left the cursor at
\* min(c+N, T), and reports remaining_rows = T - min(c+N, T); rows skipped by
\* policy are among the processed rows.
C10_ChunkArithmetic ==
    (batch.pc \in {"returned", "raised"} /\ batch.pause_limit > 0) =>
        /\ ProcessedRows = (batch.start_index + 1)..ChunkEnd
        /\ batch.next_row = ChunkEnd
        /\ batch.pc = "returned" => batch.remaining_rows = Len(batch.rows) - ChunkEnd

\* what remains of C10 when the invocation returns
C10_WhenInvocationReturns ==
    (batch.pc = "returned" /\ batch.pause_limit > 0) =>
        /\ ProcessedRows = (batch.start_index + 1)..ChunkEnd
        /\ batch.next_row = ChunkEnd
        /\ batch.remaining_rows = Len(batch.rows) - ChunkEnd

\* an invocation with a pause limit returned after a row skipped by policy was
\* counted, with rows left for the next invocation
C10_WhenInvocationReturnsWitness ==
    /\ batch.pc = "returned"
    /\ batch.pause_limit > 0
    /\ batch.remaining_rows > 0
    /\ \E i \in 1..Len(batch.results) : batch.results[i].Status = SKIPPED

\* the row the loop is at, and what the claims say of a stored row
CurrentRow == batch.rows[batch.zero_idx + 1]
StoredCompleted(row) ==
    /\ ~IsNone(row.status)
    /\ Lower(Strip(row.status.chars)) \in {DOWNLOADED, <<"s","u","c","c","e","s","s">>}
    /\ ~IsNone(row.path)
    /\ row.path.chars # <<>>

\* C11: with skip_completed enabled, the pass of the loop over a row whose stored
\* status is a completed value (any case) and whose recorded path is non-empty
\* gives the row the status skipped and does not call download_video.
C11_CompletedRowSkipped ==
    [][(batch.pc = "loop" /\ batch.skip_completed /\ StoredCompleted(CurrentRow))
          => /\ batch'.rows[batch.zero_idx + 1].status = Str(SKIPPED)
             /\ dv' = dv]_vars

\* what remains of C11 for a row that has a URL cell
C11_WhenUrlCellPresent ==
    [][(batch.pc = "loop" /\ batch.skip_completed /\ StoredCompleted(CurrentRow)
        /\ ~IsNone(CurrentRow.url))
          => /\ batch'.rows[batch.zero_idx + 1].status = Str(SKIPPED)
             /\ batch'.rows[batch.zero_idx + 1].detail = Str(<<"Already marked as downloaded in CSV.">>)
             /\ dv' = dv]_vars

\* a completed row was skipped while skip_completed was enabled
C11_WhenUrlCellPresentWitness ==
    /\ batch.skip_completed
    /\ \E i \in 1..Len(batch.results) :
          /\ StoredCompleted(batch.entry_rows[batch.results[i].Row])
          /\ batch.results[i].Status = SKIPPED

\* C12: a row that ends in status failed does not abort the batch: its status and
\* detail record the failure, and unless the pause limit has been reached the
\* loop goes on to the next row (or ends because it was the last row).
C12_FailedRowDoesNotAbort ==
    \A i \in 1..Len(batch.results) :
        batch.results[i].Status = FAILED =>
            LET n == batch.results[i].Row
            IN  /\ batch.rows[n].status = Str(FAILED)
                /\ batch.rows[n].detail = Str(batch.results[i].Detail)
                /\ batch.results[i].Detail # <<>>
                /\ i = Len(batch.results) =>
                      \/ /\ batch.pc \in {"finish", "returned"}
                         /\ \/ PauseReached(batch.pause_limit, Len(batch.results))
                            \/ n = Len(batch.rows)
                      \/ /\ batch.pc \in {"loop", "download", "raised"}
                         /\ ~PauseReached(batch.pause_limit, Len(batch.results))
                         /\ n < Len(batch.rows)
                         /\ batch.zero_idx = n

\* a failed download was followed by the processing of the next row
C12_Witness ==
    /\ Len(batch.results) = 2
    /\ batch.results[1].Status = FAILED
    /\ batch.results[1].Detail = <<"Download failed.">>

\* a row failed by validation was followed by a download
C12_WitnessValidation ==
    /\ Len(batch.results) = 2
    /\ batch.results[1].Status = FAILED
    /\ batch.results[1].Detail # <<"Download failed.">>
    /\ batch.results[2].Status = DOWNLOADED

\* the five checks of the per-row policy, as the claims word them
SkipCompletedMatches(row) == batch.skip_completed /\ StoredCompleted(row)
SkipMarkerMatches(row) ==
    /\ ~IsNone(row.skip)
    /\ Lower(Strip(row.skip.chars)) \in {<<"1">>, <<"t","r","u","e">>, <<"y","e","s">>, <<"s","k","i","p">>}
EmptyUrlMatches(row) == IsNone(row.url) \/ Strip(row.url.chars) = <<>>
CellText(cell) == IF IsNone(cell) THEN <<>> ELSE Strip(cell.chars)
Unparsable(cell) == CellText(cell) # <<>> /\ IsNone(ParseTimeToSeconds(CellText(cell)))
Parsed(cell) == CellText(cell) # <<>> /\ ~IsNone(ParseTimeToSeconds(CellText(cell)))
EndNotAfterStartInRow(row) ==
    /\ Parsed(row.clip_start)
    /\ Parsed(row.clip_end)
    /\ ParseTimeToSeconds(CellText(row.clip_end)).val <= ParseTimeToSeconds(CellText(row.clip_start)).val
ClipWithoutFfmpeg(row) ==
    (CellText(row.clip_start) # <<>> \/ CellText(row.clip_end) # <<>>) /\ ~ffmpegAvailable
ClipValidationMatches(row) ==
    \/ Unparsable(row.clip_start)
    \/ Unparsable(row.clip_end)
    \/ EndNotAfterStartInRow(row)
    \/ ClipWithoutFfmpeg(row)

\* the pass of the loop over the current row leaves it with this status and
\* detail and does not call download_video
RowSettled(status, detail) ==
    /\ batch'.rows[batch.zero_idx + 1].status = Str(status)
    /\ batch'.rows[batch.zero_idx + 1].detail = Str(detail)
    /\ batch'.results = Append(batch.results,
                               [Row |-> batch.zero_idx + 1, URL |-> CellText(CurrentRow.url),
                                Status |-> status, Detail |-> detail])
    /\ dv' = dv
DownloadVideoCalled ==
    /\ batch'.pc = "download"
    /\ dv'.pc = "validate"
    /\ dv'.url = CellText(CurrentRow.url)
    /\ batch'.rows = batch.rows

\* the outcome the ordered checks give the current row
PolicyOutcome ==
    IF SkipCompletedMatches(CurrentRow)
    THEN RowSettled(SKIPPED, <<"Already marked as downloaded in CSV.">>)
    ELSE IF SkipMarkerMatches(CurrentRow)
    THEN RowSettled(SKIPPED, <<"Marked to skip via CSV.">>)
    ELSE IF EmptyUrlMatches(CurrentRow)
    THEN RowSettled(SKIPPED, <<"Missing URL value.">>)
    ELSE IF ClipValidationMatches(CurrentRow)
    THEN /\ batch'.rows[batch.zero_idx + 1].status = Str(FAILED)
         /\ dv' = dv
    ELSE DownloadVideoCalled

\* C13: the checks of a row are applied in the order skip-completed, skip marker,
\* empty URL, clip-bound validation, download; the first that matches gives the
\* row its status and detail, and download_video is called only when none of
\* the first four matched.
C13_PolicyOrder ==
    [][batch.pc = "loop" => PolicyOutcome]_vars

\* what remains of C13 for a row that has a URL cell
C13_WhenUrlCellPresent ==
    [][(batch.pc = "loop" /\ ~IsNone(CurrentRow.url)) => PolicyOutcome]_vars

\* a row matched by the skip marker, the empty URL and the clip check at once was
\* settled by the skip marker
C13_WhenUrlCellPresentWitness ==
    /\ ~batch.skip_completed
    /\ batch.entry_rows # <<>>
    /\ batch.entry_rows[1] = AllChecksRow
    /\ Len(batch.results) >= 1
    /\ batch.results[1].Detail = <<"Marked to skip via CSV.">>

\* the messages of the clip checks that apply to a row
ApplicableClipMessages(row) ==
    (IF Unparsable(row.clip_start) THEN {"Invalid clip start time value."} ELSE {})
    \cup (IF Unparsable(row.clip_end) THEN {"Invalid clip end time value."} ELSE {})
    \cup (IF EndNotAfterStartInRow(row)
          THEN {"Clip end time must be greater than clip start time."} ELSE {})
    \cup (IF (Parsed(row.clip_start) \/ Parsed(row.clip_end)) /\ ~ffmpegAvailable
          THEN {"ffmpeg not available for clipping."} ELSE {})
FailedByClipValidation ==
    LET after == batch'.rows[batch.zero_idx + 1]
    IN  /\ after.status = Str(FAILED)
        /\ {after.detail.chars[i] : i \in 1..Len(after.detail.chars)}
               = ApplicableClipMessages(CurrentRow)
        /\ Len(after.detail.chars) = Cardinality(ApplicableClipMessages(CurrentRow))
        /\ after.detail.chars # <<>>
        /\ dv' = dv

C14_WitnessWithoutFfmpeg ==
    \E i \in 1..Len(batch.results) :
        /\ batch.entry_rows[batch.results[i].Row] = ClipRow
        /\ batch.results[i].Detail = <<"ffmpeg not available for clipping.">>

\* a row that this pass has processed: set_row_status stamped it (the rows of the
\* uploaded CSV carry no stamp)
ProcessedInPass(row) == row.processed_at = Str(ProcessedAt)
TerminalStatuses == {Str(SKIPPED), Str(FAILED), Str(DOWNLOADED)}

\* C15: a processed row has exactly one of the statuses skipped, failed and
\* downloaded, and over all the invocations on one loaded batch no processed row
\* is processed again: once set, its status (and the rest of the row) stays.
C15_TerminalStatusStable ==
    [][/\ \A j \in 1..Len(batch'.rows) :
             ProcessedInPass(batch'.rows[j]) => batch'.rows[j].status \in TerminalStatuses
       /\ \A j \in 1..Len(batch.rows) :
             ProcessedInPass(batch.rows[j]) => batch'.rows[j] = batch.rows[j]]_vars

\* a later invocation is processing rows while a row processed by an earlier
\* invocation keeps its status
C15_Witness ==
    /\ batch.start_index >= 1
    /\ Len(batch.results) >= 1
    /\ ProcessedInPass(batch.rows[1])
    /\ batch.rows[1].status = Str(DOWNLOADED)

(***************************************************************************)
(* Properties of the archive, checked under SpecArchive.                   *)
(***************************************************************************)
ArchiveBuilt == batch.pc \in {"archived", "returned"}
\* the rows (by number, in order) marked downloaded whose recorded path exists
RowIsDownloaded(row) == ~IsNone(row.status) /\ Lower(Strip(row.status.chars)) = DOWNLOADED
RecordedPathExists(row) ==
    /\ ~IsNone(row.path)
    /\ row.path.chars # <<>>
    /\ ParsePath(row.path.chars) \in DOMAIN disk
ArchiveRowNumbers ==
    SelectSeq([j \in 1..Len(batch.rows) |-> j],
              LAMBDA j : RowIsDownloaded(batch.rows[j]) /\ RecordedPathExists(batch.rows[j]))
ArchiveRowPaths ==
    [i \in 1..Len(ArchiveRowNumbers) |-> ParsePath(batch.rows[ArchiveRowNumbers[i]].path.chars)]
Basename(p) == p.stem \o p.suffix
\* the names are pairwise distinct, each the basename of its file or that
\* basename with _<number> before the extension
ArchiveNamesDistinct(entries) ==
    /\ \A i, k \in 1..Len(entries) : i # k => entries[i].arcname # entries[k].arcname
    /\ \A i \in 1..Len(entries) :
          \/ entries[i].arcname = Basename(entries[i].path)
          \/ \E c \in 1..9 :
                entries[i].arcname = entries[i].path.stem \o <<"_", Digits[c + 1]>> \o entries[i].path.suffix
\* the members of a sequence at the positions in keep, in order
Restrict(seq, keep) ==
    SelectSeq([i \in 1..Len(seq) |-> [at |-> i, val |-> seq[i]]], LAMBDA e : e.at \in keep)
Values(pairs) == [i \in 1..Len(pairs) |-> pairs[i].val]

\* C16 as stated: the archive has one entry for each row marked downloaded whose
\* recorded path exists on disk, and for no other row, under pairwise distinct
\* names.
C16_Original ==
    ArchiveBuilt =>
        IF ArchiveRowNumbers = <<>> THEN IsNone(batch.zip)
        ELSE /\ ~IsNone(batch.zip)
             /\ [i \in 1..Len(batch.zip.entries) |-> batch.zip.entries[i].path] = ArchiveRowPaths
             /\ ArchiveNamesDistinct(batch.zip.entries)

\* C16: the archive has one entry for each row marked downloaded whose recorded
\* path exists on disk and whose file could be added (a file whose addition
\* fails gets a warning and no entry), and for no other row; the entry names are
\* pairwise distinct, a basename already taken getting _<number> before the
\* extension; without such a row there is no archive.
C16_ArchiveOfDownloadedRows ==
    ArchiveBuilt =>
        IF ArchiveRowNumbers = <<>> THEN IsNone(batch.zip)
        ELSE /\ ~IsNone(batch.zip)
             /\ \E failed \in SUBSET (1..Len(ArchiveRowPaths)) :
                   /\ [i \in 1..Len(batch.zip.entries) |-> batch.zip.entries[i].path]
                         = Values(Restrict(ArchiveRowPaths, (1..Len(ArchiveRowPaths)) \ failed))
                   /\ batch.zip.warned = Values(Restrict(ArchiveRowPaths, failed))
             /\ ArchiveNamesDistinct(batch.zip.entries)

\* three files of which two share a basename and the third has the name the
\* second was given; all three are in the archive
C16_Witness ==
    /\ batch.pc = "archived"
    /\ ~IsNone(batch.zip)
    /\ Len(batch.zip.entries) = 3
    /\ batch.zip.entries[2].arcname = <<"x","_","1",".","m","p","4">>
    /\ batch.zip.entries[3].arcname = <<"x","_","1","_","1",".","m","p","4">>

\* a row marked downloaded whose file is missing, and a row marked failed whose
\* file exists, are left out
C16_WitnessLeftOut ==
    /\ batch.pc = "archived"
    /\ ~IsNone(batch.zip)
    /\ \E j \in 1..Len(batch.rows) :
          RowIsDownloaded(batch.rows[j]) /\ ~RecordedPathExists(batch.rows[j])
             /\ batch.rows[j].path.chars # <<>>
    /\ \E j \in 1..Len(batch.rows) :
          ~RowIsDownloaded(batch.rows[j]) /\ RecordedPathExists(batch.rows[j])


(***************************************************************************)
(* Properties of the updated CSV, checked under SpecCsv.                   *)
(***************************************************************************)
\* the text of a cell; a cell the line does not have reads as the empty text
\* (line 372: row.get(url_column) or "")
CellValue(row, column) == OrEmpty(Get(row, column, None))

TerminalRow(context, row) ==
    CellValue(row, context.status_column) \in {SKIPPED, FAILED, DOWNLOADED}

SameCells(before, after, i) ==
    /\ CellValue(after.rows[i], after.url_column) = CellValue(before.rows[i], before.url_column)
    /\ CellValue(after.rows[i], after.status_column)
          = CellValue(before.rows[i], before.status_column)
    /\ CellValue(after.rows[i], after.path_column) = CellValue(before.rows[i], before.path_column)

BookkeepingNames == <<STATUS_COLUMN, DETAIL_COLUMN, PATH_COLUMN, TIMESTAMP_COLUMN>>
IsBookkeeping(name) ==
    \E k \in 1..Len(BookkeepingNames) : Lower(Strip(name)) = Lower(BookkeepingNames[k])
UploadedLines == SelectSeq(batch.records, LAMBDA r : r # <<>>)
UpdatedRecords == ReadRecords(Decode(batch.updated_csv)).records
ExpectedHeader ==
    batch.header \o SelectSeq(BookkeepingNames,
        LAMBDA name : ~ \E j \in 1..Len(batch.header) :
                            Lower(Strip(batch.header[j])) = Lower(name))
UploadedCell(i, j) == IF j <= Len(UploadedLines[i]) THEN UploadedLines[i][j] ELSE <<>>

UpdatedCsvKeepsInput ==
    /\ UpdatedRecords[1] = ExpectedHeader
    /\ Len(UpdatedRecords) = 1 + Len(UploadedLines)
    /\ \A i \in 1..Len(UploadedLines) :
          /\ Len(UpdatedRecords[i + 1]) = Len(ExpectedHeader)
          /\ \A j \in 1..Len(batch.header) :
                ~ IsBookkeeping(batch.header[j])
                    => UpdatedRecords[i + 1][j] = UploadedCell(i, j)

\* C18: the updated CSV has the columns of the input in their order, then the
\* bookkeeping columns the input lacks; every line has a cell in each bookkeeping
\* column, and the cells of the other columns are those of the input.
C18_UpdatedCsvColumns == batch.pc = "processed" => UpdatedCsvKeepsInput

ColumnNamesDistinct ==
    \A i, j \in 1..Len(batch.header) : batch.header[i] = batch.header[j] => i = j

\* C18, for an input whose column names are pairwise distinct
C18_WhenColumnNamesDistinct ==
    (batch.pc = "processed" /\ ColumnNamesDistinct) => UpdatedCsvKeepsInput

\* an input with distinct column names, a bookkeeping column of its own and a
\* short line has been written with one row processed and one not
C18_WhenColumnNamesDistinctWitness ==
    /\ batch.pc = "processed"
    /\ ColumnNamesDistinct
    /\ \E j \in 1..Len(batch.header) : IsBookkeeping(batch.header[j])
    /\ Len(UploadedLines) = 2
    /\ Len(UploadedLines[2]) < Len(batch.header)
    /\ UploadedLines[1][1] = SpecialText
    /\ batch.context.next_row = 1


(***************************************************************************)
(* Properties of the temporary cookies file, checked under SpecCookie.     *)
(***************************************************************************)
InvocationExited == batch.pc \in {"returned", "raised"}
CookieFileWritten == ~ IsNone(batch.temp_cookie_path)
CookieFileOnDisk == Exists(disk, batch.temp_cookie_path)

C19_Original == (InvocationExited /\ CookieFileWritten) => ~ CookieFileOnDisk

\* C19: when an invocation that wrote a temporary cookies file ends, by return
\* or by an exception, the file is gone or its removal failed and was logged.
C19_CookieFileRemovedOrWarned ==
    (InvocationExited /\ CookieFileWritten) => (~ CookieFileOnDisk \/ batch.warned)

\* an invocation that wrote the file ended by an exception and its finally block
\* removed the file
C19_Witness ==
    /\ batch.pc = "raised"
    /\ CookieFileWritten
    /\ batch.removed_by = "finally"
    /\ ~ CookieFileOnDisk


(***************************************************************************)
(* Properties of the output template, checked under SpecTemplate.          *)
(***************************************************************************)
FilenameGiven == ~ IsNone(dv.filename) /\ dv.filename.chars # <<>>
LacksExtPlaceholder == ~ Contains(dv.filename.chars, EXT_PLACEHOLDER)
\* the argument that follows -o on the command line
OutputArgument ==
    LET i == CHOOSE i \in 1..Len(dv.command) : dv.command[i] = <<"-", "o">>
    IN  dv.command[i + 1]
EndsWith(text, tail) ==
    Len(text) >= Len(tail) /\ SubSeq(text, Len(text) - Len(tail) + 1, Len(text)) = tail

\* C20: a filename without an extension placeholder reaches yt-dlp as that
\* filename followed by the extension placeholder.
C20_PlaceholderAppended ==
    (dv.pc = "command" /\ FilenameGiven /\ LacksExtPlaceholder) =>
        /\ EndsWith(OutputArgument, EXT_PLACEHOLDER)
        /\ Contains(OutputArgument, dv.filename.chars)

\* what the code does: the template is the filename as given, under the output
\* directory unless the filename is absolute
C20_FilenameUsedAsGiven ==
    (dv.pc = "command" /\ FilenameGiven) =>
        OutputArgument = JoinPath(dv.output_dir, dv.filename.chars)

\* a filename without placeholder and without suffix has reached the command line
C20_FilenameUsedAsGivenWitness ==
    /\ dv.pc = "command"
    /\ FilenameGiven
    /\ LacksExtPlaceholder
    /\ ~ Contains(dv.filename.chars, <<".">>)
    /\ OutputArgument = dv.output_dir \o <<"/">> \o dv.filename.chars


(***************************************************************************)
(* Properties of the yt-dlp command lines, checked under SpecCommand.      *)
(***************************************************************************)
HasArgument(command, flag) == \E i \in 1..Len(command) : command[i] = flag
\* the flag is on the command line, followed by the value
HasOption(command, flag, value) ==
    \E i \in 1..(Len(command) - 1) : command[i] = flag /\ command[i + 1] = value
UsernameFlag == <<"-","-","u","s","e","r","n","a","m","e">>
PasswordFlag == <<"-","-","p","a","s","s","w","o","r","d">>
CommandsBuilt == {dv.commands[i] : i \in 1..Len(dv.commands)}

CredentialsAsGiven(command) ==
    /\ ~ Given(dv.username) =>
            ~ HasArgument(command, UsernameFlag) /\ ~ HasArgument(command, PasswordFlag)
    /\ Given(dv.username) => HasOption(command, UsernameFlag, dv.username.chars)
    /\ (Given(dv.username) /\ ~ Given(dv.password)) => ~ HasArgument(command, PasswordFlag)
    /\ (Given(dv.username) /\ Given(dv.password))
            => HasOption(command, PasswordFlag, dv.password.chars)

\* C21: a password without a username reaches no command line, a username
\* without a password is passed alone, and a password is passed only beside a
\* username; the call fails only when its yt-dlp runs fail.
C21_Credentials ==
    /\ \A command \in CommandsBuilt : CredentialsAsGiven(command)
    /\ dv.pc = "returned" =>
          /\ dv.commands # <<>>
          /\ IsNone(dv.result) => ~ IsNone(dv.last_error_message)

\* a call with a password and no username has run yt-dlp and returned the file
C21_Witness ==
    /\ dv.pc = "returned"
    /\ ~ Given(dv.username)
    /\ Given(dv.password)
    /\ dv.password_ignored
    /\ dv.result = TitlePath
    /\ ~ HasArgument(dv.commands[1], PasswordFlag)

\* a call with a username and no password has passed the username alone
C21_WitnessUsernameAlone ==
    /\ dv.pc = "returned"
    /\ Given(dv.username)
    /\ ~ Given(dv.password)
    /\ HasOption(dv.commands[1], UsernameFlag, dv.username.chars)
    /\ dv.result = TitlePath


\* the options every command line carries
FixedOptions(command) ==
    /\ HasArgument(command, <<"-","-","n","o","-","p","l","a","y","l","i","s","t">>)
    /\ HasArgument(command, <<"-","-","f","o","r","c","e","-","o","v","e","r","w","r","i","t","e","s">>)
    /\ HasArgument(command, <<"-","-","n","o","-","p","a","r","t">>)
    /\ HasOption(command, <<"-","-","u","s","e","r","-","a","g","e","n","t">>, <<"_YOUTUBE_USER_AGENT">>)
RetryOptions(command) ==
    /\ HasArgument(command, <<"-","-","r","e","t","r","i","e","s">>)
    /\ HasArgument(command, <<"-","-","f","r","a","g","m","e","n","t","-","r","e","t","r","i","e","s">>)

\* C26: every command line disables playlists, forces overwriting, sets the
\* user agent and sets the retry counts for the item and for its fragments.
C26_FixedAndRetryOptions ==
    \A command \in CommandsBuilt : FixedOptions(command) /\ RetryOptions(command)

\* C26 without the retry counts
C26_FixedOptions == \A command \in CommandsBuilt : FixedOptions(command)

\* the initial and the fallback command line have both been built
C26_FixedOptionsWitness ==
    /\ Len(dv.commands) = 2
    /\ FixedOptions(dv.commands[1])
    /\ FixedOptions(dv.commands[2])

\* what the fallback command line has after the arguments of the initial one
AddedToFallback == SubSeq(dv.commands[2], Len(dv.commands[1]) + 1, Len(dv.commands[2]))
FallbackExtendsInitial ==
    /\ Len(dv.commands[2]) >= Len(dv.commands[1])
    /\ SubSeq(dv.commands[2], 1, Len(dv.commands[1])) = dv.commands[1]

\* C27: the fallback command line is the initial one plus the options that
\* force IPv4, set the HTTP chunk size and raise the retry count.
C27_FallbackAddsNetworkOptions ==
    Len(dv.commands) = 2 =>
        /\ FallbackExtendsInitial
        /\ HasArgument(AddedToFallback, <<"-","-","f","o","r","c","e","-","i","p","v","4">>)
        /\ HasArgument(AddedToFallback, <<"-","-","h","t","t","p","-","c","h","u","n","k","-","s","i","z","e">>)
        /\ HasArgument(AddedToFallback, <<"-","-","r","e","t","r","i","e","s">>)

\* C27 as the code has it: the fallback adds --force-ipv4 and --http-chunk-size
\* 1048576 and nothing else
C27_FallbackAddsIpv4AndChunkSize ==
    Len(dv.commands) = 2 =>
        /\ FallbackExtendsInitial
        /\ AddedToFallback = <<<<"-","-","f","o","r","c","e","-","i","p","v","4">>, <<"-","-","h","t","t","p","-","c","h","u","n","k","-","s","i","z","e">>, <<"1","0","4","8","5","7","6">>>>

\* a fallback with cookies and both credentials has been built
C27_FallbackAddsIpv4AndChunkSizeWitness ==
    /\ Len(dv.commands) = 2
    /\ HasOption(dv.commands[2], <<"-","-","c","o","o","k","i","e","s">>, PathStr(CookiesFile))
    /\ HasOption(dv.commands[2], PasswordFlag, dv.password.chars)
    /\ HasArgument(dv.commands[2], <<"-","-","f","o","r","c","e","-","i","p","v","4">>)
    /\ ~ HasArgument(dv.commands[1], <<"-","-","f","o","r","c","e","-","i","p","v","4">>)

MergedFormat(command) ==
    /\ HasOption(command, <<"-","f">>, <<"b","v","*","+","b","a","/","b">>)
    /\ HasOption(command, <<"-","-","m","e","r","g","e","-","o","u","t","p","u","t","-","f","o","r","m","a","t">>, <<"m","p","4">>)
    /\ HasArgument(command, <<"-","-","f","f","m","p","e","g","-","l","o","c","a","t","i","o","n">>)
SingleStream(command) ==
    /\ HasOption(command, <<"-","f">>, <<"b","e","s","t">>)
    /\ ~ HasArgument(command, <<"-","-","m","e","r","g","e","-","o","u","t","p","u","t","-","f","o","r","m","a","t">>)
    /\ ~ HasArgument(command, <<"-","-","f","f","m","p","e","g","-","l","o","c","a","t","i","o","n">>)

\* C28: with ffmpeg available every command line asks for the merged format
\* with the merge options; without it every command line asks for one combined
\* stream and has no merge or ffmpeg-location option.
C28_FormatFollowsFfmpeg ==
    \A command \in CommandsBuilt :
        IF ffmpegAvailable THEN MergedFormat(command) /\ ~ SingleStream(command)
        ELSE SingleStream(command) /\ ~ MergedFormat(command)

\* without ffmpeg an initial and a fallback command line have been built
C28_Witness ==
    /\ ~ ffmpegAvailable
    /\ Len(dv.commands) = 2
    /\ SingleStream(dv.commands[2])

\* with ffmpeg a command line with the merge options has been built
C28_WitnessMerged ==
    /\ ffmpegAvailable
    /\ dv.commands # <<>>
    /\ MergedFormat(dv.commands[1])

(***************************************************************************)
(* Properties of the columns read from a row, checked under SpecColumns.   *)
(***************************************************************************)
RowProcessed == batch.pc = "called"
StartCell == Str(batch.cells[2])
EndCell == Str(batch.cells[3])
\* the bounds the row policy works with, and the call's when it downloads, are
\* those parsed from the row's clip cells
BoundsFromCells ==
    /\ batch.decision.clip_start = ClipSeconds(StartCell)
    /\ batch.decision.clip_end = ClipSeconds(EndCell)
    /\ batch.call.function = "download_video" =>
          /\ batch.call.clip_start = ClipSeconds(StartCell)
          /\ batch.call.clip_end = ClipSeconds(EndCell)

\* C22: under every spelling of the clip columns' names (clip start time, start,
\* start time, clip start, and the same for end, in any case and with blanks
\* around), the bounds parsed from the row's clip cells are those the row is
\* processed with and those passed to the download.
C22_ClipColumnVariants == RowProcessed => BoundsFromCells

\* C22, under the names the code reads: when the clip columns are named exactly
\* "Clip Start Time" and "Clip End Time", the bounds parsed from the row's clip
\* cells are those the row is processed with and those passed to the download.
C22_ExactClipColumns ==
    RowProcessed /\ batch.names = <<CLIP_START_KEY, CLIP_END_KEY>> => BoundsFromCells
C22_ExactClipColumnsWitness ==
    /\ RowProcessed /\ batch.names = <<CLIP_START_KEY, CLIP_END_KEY>>
    /\ batch.call.function = "download_video"
    /\ batch.call.clip_start = Float(1) /\ batch.call.clip_end = Float(2)

IsAudioRow == Lower(Strip(batch.cells[4])) = <<"a","u","d","i","o">>

\* C23: a row whose media type column (download type, type or media type) holds
\* audio, and which is not skipped or failed, is not downloaded as a video: the
\* call made for it is not download_video.
C23_AudioRowExportsAudio ==
    RowProcessed /\ IsAudioRow /\ batch.decision.kind = "download"
        => batch.call.function # "download_video"

(***************************************************************************)
(* Properties of the trim step of download_video, checked under Spec.      *)
(***************************************************************************)
LastTrimRun == TrimRuns[Len(TrimRuns)]
TrimSucceeded == dv.pc = "returned" /\ TrimRuns # <<>> /\ LastTrimRun.outcome = "ok"

\* C24: when trimming succeeded, download_video returns the path the extraction
\* attempt reported, the trimmed file is at that path, and the temporary sibling
\* path it was written to no longer exists.
C24_TrimmedInPlace ==
    TrimSucceeded =>
        /\ dv.result = dv.file_path
        /\ Exists(disk, dv.file_path) /\ disk[dv.file_path] = "clip"
        /\ ~IsNone(dv.temp_target) /\ dv.temp_target # dv.file_path
        /\ ~Exists(disk, dv.temp_target)
\* a trim that succeeded while an older clip of the same download was on disk
C24_Witness ==
    /\ TrimSucceeded
    /\ dv.result = TitlePath
    /\ Exists(disk, NextClipPath(TitlePath, <<>>))
    /\ dv.temp_target # NextClipPath(TitlePath, <<>>)
    /\ ~Exists(disk, dv.temp_target)

\* the step of download_video in which a started trim fails
TrimFails ==
    /\ dv.pc = "clip" /\ dv'.pc = "returned"
    /\ Len(dv'.events) = Len(dv.events) + 1
    /\ dv'.events[Len(dv'.events)].outcome \in {"exit_nonzero", "replace_failed"}
OriginalKept ==
    /\ Exists(disk, dv.file_path) /\ Exists(disk', dv.file_path)
    /\ disk'[dv.file_path] = disk[dv.file_path]

\* C25, as stated: when a started trim fails (non-zero exit or failed
\* rename-over), the temporary artifact is gone and the downloaded file is still
\* at its path with the content it had.
C25_Original ==
    [][TrimFails => ~Exists(disk', dv'.temp_target) /\ OriginalKept]_vars

\* C25, amended: when a started trim fails, the downloaded file is still at its
\* path with the content it had, and the temporary artifact is gone unless its
\* removal failed and the warning about it was logged.
C25_TempRemovedOrWarned ==
    [][TrimFails => (~Exists(disk', dv'.temp_target) \/ dv'.clip_warning) /\ OriginalKept]_vars
\* a trim that exited non-zero after writing a partial file, which was removed
C25_Witness ==
    /\ dv.pc = "returned" /\ TrimRuns # <<>> /\ LastTrimRun.outcome = "exit_nonzero"
    /\ IsNone(dv.result) /\ ~dv.clip_warning
    /\ ~Exists(disk, dv.temp_target)
    /\ Exists(disk, dv.file_path) /\ disk[dv.file_path] = "data"
    /\ dv.events[Len(dv.events)].run = "ffmpeg"
\* a failed rename-over after which the temporary file could not be removed
C25_WitnessWarned ==
    /\ dv.pc = "returned" /\ TrimRuns # <<>> /\ LastTrimRun.outcome = "replace_failed"
    /\ dv.clip_warning /\ Exists(disk, dv.temp_target)
    /\ Exists(disk, dv.file_path) /\ disk[dv.file_path] = "data"

(***************************************************************************)
(* Properties of the batch cursor, checked under SpecBatch.                *)
(***************************************************************************)
CursorInRange == 0 <= batch.next_row /\ batch.next_row <= Len(batch.rows)
RemainingReported ==
    batch.pc = "returned" => batch.remaining_rows = Len(batch.rows) - batch.next_row

\* C29: through every sequence of invocations on one context the cursor next_row
\* stays within 0 .. total rows and never decreases, and the remaining_rows an
\* invocation reports is total rows minus next_row.
C29_CursorMonotone ==
    /\ [](CursorInRange /\ RemainingReported)
    /\ [][batch'.next_row >= batch.next_row]_vars
\* a continued invocation returned, having moved the cursor on
C29_Witness ==
    /\ batch.pc = "returned"
    /\ batch.start_index > 0
    /\ batch.next_row > batch.start_index
    /\ batch.remaining_rows = Len(batch.rows) - batch.next_row

\* the step that ends an invocation otherwise than by an exception of download_video
InvocationEnds ==
    /\ batch.pc \in {"loop", "finish"}
    /\ batch'.pc \in {"returned", "raised"}

\* C30: an invocation that starts with a row left and in which every
\* download_video call returns ends with the cursor past its start, so that
\* repeated invocations exhaust the rows; with pause limit 0 it ends with no row
\* left.
C30_InvocationProgresses ==
    [][InvocationEnds /\ batch.start_index < Len(batch.rows)
          => /\ batch'.next_row > batch'.start_index
             /\ batch'.pause_limit = 0 => batch'.next_row = Len(batch'.rows)]_vars

\* C30, for the invocations that return: the cursor is past the start, and with
\* pause limit 0 no row is left.
C30_WhenInvocationReturns ==
    batch.pc = "returned" /\ batch.start_index < Len(batch.rows)
        => /\ batch.next_row > batch.start_index
           /\ batch.pause_limit = 0 => batch.next_row = Len(batch.rows) /\ batch.remaining_rows = 0
C30_WhenInvocationReturnsWitness ==
    /\ batch.pc = "returned"
    /\ batch.start_index = 1 /\ batch.next_row = 2 /\ batch.remaining_rows = 0

(***************************************************************************)
(* Properties of the size check of _run_cli_download, checked under Spec.  *)
(***************************************************************************)
LastExtractionRun == ExtractionRuns[Len(ExtractionRuns)]
ReturnedUnclipped == dv.pc = "returned" /\ ~IsNone(dv.result) /\ TrimRuns = <<>>
\* the path download_video returns without clipping is the one whose size the
\* last attempt read, and the file is there and is not empty
ReturnedFileHasData ==
    ReturnedUnclipped =>
        /\ ExtractionRuns # <<>> /\ LastExtractionRun.outcome = "ok"
        /\ dv.examined = dv.result
        /\ Exists(disk, dv.result) /\ disk[dv.result] # "empty"
\* the last attempt found a zero-size file: it failed with the empty-file error
\* and its path is not returned
EmptyFileIsError ==
    dv.found_empty =>
        /\ LastExtractionRun.outcome = "failed"
        /\ LastExtractionRun.message = Str(EmptyFileMessage)
        /\ IsNone(dv.result)

\* C36, as stated: a path returned without clipping is that of a file the attempt
\* found with non-zero size; an attempt that finds a zero-size file fails with the
\* empty-file error, the file is gone afterwards, and its path is not returned.
C36_Original ==
    /\ ReturnedFileHasData
    /\ EmptyFileIsError
    /\ dv.found_empty => ~Exists(disk, dv.examined)

\* C36, amended: as above, but the zero-size file is gone unless its removal
\* failed, which is ignored.
C36_EmptyFileNeverReturned ==
    /\ ReturnedFileHasData
    /\ EmptyFileIsError
    /\ dv.found_empty => (~Exists(disk, dv.examined) \/ dv.unlink_failed)
\* both attempts found a zero-size file and removed it; nothing is returned
C36_Witness ==
    /\ dv.pc = "returned" /\ dv.found_empty /\ ~dv.unlink_failed
    /\ Len(ExtractionRuns) = 2
    /\ dv.examined = TitlePath /\ ~Exists(disk, TitlePath)
    /\ IsNone(dv.result)
\* a file with data was returned after the first attempt's empty file was removed
C36_WitnessReturned ==
    /\ ReturnedUnclipped /\ Len(ExtractionRuns) = 2
    /\ ExtractionRuns[1].message = Str(EmptyFileMessage)
    /\ disk[dv.result] = "data"

(***************************************************************************)
(* Properties of the order of the collaborator runs, checked under Spec.   *)
(***************************************************************************)
\* C37: in one download_video call the trim collaborator is started at most
\* once, only right after an extraction attempt that succeeded, and only when a
\* clip bound was requested; no extraction attempt follows the trim step.
C37_TrimOnceAfterExtraction ==
    /\ Len(TrimRuns) <= 1
    /\ TrimRuns # <<>> =>
          /\ Len(dv.events) >= 2
          /\ dv.events[Len(dv.events)].run = "ffmpeg"
          /\ dv.events[Len(dv.events) - 1].run # "ffmpeg"
          /\ dv.events[Len(dv.events) - 1].outcome = "ok"
          /\ ~IsNone(dv.clip_start) \/ ~IsNone(dv.clip_end)
    /\ dv.pc = "clip" => ExtractionSucceeded
\* the fallback attempt succeeded and the file was trimmed
C37_Witness ==
    /\ dv.pc = "returned"
    /\ Len(ExtractionRuns) = 2 /\ Len(TrimRuns) = 1
    /\ dv.events[3].run = "ffmpeg" /\ dv.events[3].outcome = "ok"
\* a call without clip bounds returned a file and no trim was started
C37_WitnessNoBounds ==
    /\ dv.pc = "returned" /\ ~IsNone(dv.result)
    /\ IsNone(dv.clip_start) /\ IsNone(dv.clip_end)
    /\ TrimRuns = <<>>

\* the bounds as the caller gave them, read as numbers (None: not given or not a number)
GivenStart == IF IsNone(dv.clip_start) THEN None ELSE ToFloat(dv.clip_start)
GivenEnd == IF IsNone(dv.clip_end) THEN None ELSE ToFloat(dv.clip_end)
\* a bound is not numeric, start < 0, end <= 0, or end <= start
BoundsInvalid ==
    \/ ~IsNone(dv.clip_start) /\ IsNone(GivenStart)
    \/ ~IsNone(dv.clip_end) /\ IsNone(GivenEnd)
    \/ ~IsNone(GivenStart) /\ GivenStart.val < 0
    \/ ~IsNone(GivenEnd) /\ GivenEnd.val <= 0
    \/ ~IsNone(GivenStart) /\ ~IsNone(GivenEnd) /\ GivenEnd.val <= GivenStart.val

\* C38: a download_video call whose clip bounds are invalid (a non-numeric bound,
\* start < 0, end <= 0, or end <= start) starts neither the extraction nor the
\* trim collaborator, and a call that started one has passed the validation.
C38_ValidationBeforeExtraction ==
    /\ (dv.pc # "idle" /\ BoundsInvalid) =>
          /\ dv.events = <<>>
          /\ dv.pc \in {"validate", "returned"}
          /\ dv.pc = "returned" => IsNone(dv.result)
    /\ (dv.pc = "returned" /\ dv.error \in ClipValidationErrors) => dv.events = <<>>
\* a call with end <= start was rejected with nothing started
C38_Witness ==
    /\ dv.pc = "returned" /\ dv.error = EndNotAfterStartError
    /\ dv.clip_start = Float(1) /\ dv.clip_end = Float(1)
    /\ dv.events = <<>> /\ IsNone(dv.result)

(***************************************************************************)
(* Properties of the logged command line, checked under SpecSanitize.      *)
(***************************************************************************)
CommandLogged == dv.pc \in {"attempt", "returned"}
\* the logged form has the command's length, "***" after every --password and
\* every other argument as it is
MaskedAfterPasswordFlag(command, logged) ==
    /\ Len(logged) = Len(command)
    /\ \A i \in 1..Len(command) :
          logged[i] = IF i > 1 /\ command[i - 1] = <<"-","-","p","a","s","s","w","o","r","d">> THEN MASK ELSE command[i]
\* the two commands differ in the password value and in nothing else
DifferOnlyInPassword ==
    /\ Given(dv.username) /\ Given(dv.password) /\ Given(dv.other_password)
    /\ dv.password # dv.other_password

\* C40: the logged form of every command has the command's length, holds "***"
\* in place of the argument after --password and every other argument unchanged,
\* and two commands that differ only in the password value are logged alike.
C40_PasswordMasked ==
    CommandLogged =>
        /\ MaskedAfterPasswordFlag(dv.command, dv.logged)
        /\ MaskedAfterPasswordFlag(dv.other_command, dv.other_logged)
        /\ DifferOnlyInPassword => dv.logged = dv.other_logged

\* no value on the command line is the text "--password"
NoValueIsPasswordFlag ==
    /\ dv.username # Str(<<"-","-","p","a","s","s","w","o","r","d">>)
    /\ dv.password # Str(<<"-","-","p","a","s","s","w","o","r","d">>) /\ dv.other_password # Str(<<"-","-","p","a","s","s","w","o","r","d">>)

\* C40, when no value is the text "--password": the logged form is as claimed.
C40_WhenNoValueIsFlag ==
    (CommandLogged /\ NoValueIsPasswordFlag) =>
        /\ MaskedAfterPasswordFlag(dv.command, dv.logged)
        /\ MaskedAfterPasswordFlag(dv.other_command, dv.other_logged)
        /\ DifferOnlyInPassword => dv.logged = dv.other_logged
C40_WhenNoValueIsFlagWitness ==
    /\ CommandLogged /\ NoValueIsPasswordFlag /\ DifferOnlyInPassword
    /\ \E i \in 1..Len(dv.logged) : dv.logged[i] = MASK /\ dv.command[i] = <<"s","e","c","r","e","t">>
    /\ dv.logged = dv.other_logged /\ dv.command # dv.other_command

(***************************************************************************)
(* Properties of what an invocation reports, checked under SpecBatch.      *)
(***************************************************************************)
InvocationReturned == batch.pc = "returned"

\* C31: an invocation reports a non-zero paused_after only when rows remain:
\* paused_after # 0 implies remaining_rows > 0, so that a batch whose last row
\* was processed just as the pause limit was reached is reported as finished.
C31_PausedOnlyWithRowsLeft ==
    InvocationReturned /\ batch.paused_after # 0 => batch.remaining_rows > 0

\* C31, as the code behaves: paused_after is the pause limit whenever the loop
\* was left at the pause check, with rows left or not, and 0 otherwise; rows
\* remain only after a pause.
C31_PausedWhenLimitReached ==
    InvocationReturned =>
        /\ batch.paused_after =
              (IF PauseReached(batch.pause_limit, Len(batch.results))
               THEN batch.pause_limit ELSE 0)
        /\ batch.remaining_rows > 0 => batch.paused_after # 0
C31_PausedWhenLimitReachedWitness ==
    /\ InvocationReturned
    /\ batch.paused_after = 2 /\ batch.remaining_rows = 0 /\ Len(batch.rows) = 2

\* the step in which a row is marked skipped
MarkedSkipped(j) ==
    /\ j <= Len(batch'.rows)
    /\ batch'.rows[j] # batch.rows[j]
    /\ batch'.rows[j].status = Str(SKIPPED)

\* C33: marking a row skipped (already completed, skip marker, or no URL) leaves
\* the output path recorded in the row as it was.
C33_SkipKeepsRecordedPath ==
    [][\A j \in 1..Len(batch.rows) :
          MarkedSkipped(j) => OrEmpty(batch'.rows[j].path) = OrEmpty(batch.rows[j].path)]_vars

\* C33, as the code behaves: marking a row skipped clears its recorded path and
\* leaves its URL, skip and clip cells as they were.
C33_SkipClearsRecordedPath ==
    [][\A j \in 1..Len(batch.rows) :
          MarkedSkipped(j) =>
             /\ batch'.rows[j].path = Str(<<>>)
             /\ batch'.rows[j].url = batch.rows[j].url
             /\ batch'.rows[j].skip = batch.rows[j].skip
             /\ batch'.rows[j].clip_start = batch.rows[j].clip_start
             /\ batch'.rows[j].clip_end = batch.rows[j].clip_end]_vars
\* a row stored as downloaded with its path was skipped and lost the path
C33_SkipClearsRecordedPathWitness ==
    /\ Len(batch.results) >= 1
    /\ batch.results[1].Status = SKIPPED
    /\ batch.results[1].Detail = <<"Already marked as downloaded in CSV.">>
    /\ batch.entry_rows[batch.results[1].Row].path = Str(PathStr(TitlePath))
    /\ batch.rows[batch.results[1].Row].path = Str(<<>>)

\* lines 553-555: sum(1 for item in results if item["Status"] == status)
CountStatus(results, status) ==
    Cardinality({i \in 1..Len(results) : results[i].Status = status})

\* C34: for an invocation that returns, success_count + failure_count +
\* skipped_count is the number of results of the call and the amount by which
\* the cursor advanced, and the results carry the row numbers old cursor + 1,
\* old cursor + 2, ...
C34_CountsMatchCursor ==
    InvocationReturned =>
        /\ CountStatus(batch.results, DOWNLOADED) + CountStatus(batch.results, FAILED)
              + CountStatus(batch.results, SKIPPED) = Len(batch.results)
        /\ Len(batch.results) = batch.next_row - batch.start_index
        /\ \A i \in 1..Len(batch.results) : batch.results[i].Row = batch.start_index + i
\* an invocation returned a skipped
\* and a failed row
C34_Witness ==
    /\ InvocationReturned
    /\ CountStatus(batch.results, SKIPPED) = 1 /\ CountStatus(batch.results, FAILED) = 1
    /\ batch.next_row - batch.start_index = 2
C34_WitnessContinued ==
    /\ InvocationReturned /\ batch.start_index = 1
    /\ CountStatus(batch.results, DOWNLOADED) = 1 /\ batch.next_row = 2

(***************************************************************************)
(* Properties of the cumulative history, checked under SpecBatch.          *)
(***************************************************************************)
\* success + failure + skipped + remaining_rows is the number of rows, and every
\* row of the cumulative results is at or before the cursor
HistoryMatchesCursor ==
    /\ batch.summary_counts.success + batch.summary_counts.failure
          + batch.summary_counts.skipped + batch.remaining_rows = Len(batch.rows)
    /\ \A k \in 1..Len(batch.all_results) : batch.all_results[k].Row <= batch.next_row

\* C35: after the history update that follows an invocation, the cumulative
\* counts satisfy success + failure + skipped + remaining_rows = total rows and
\* the cumulative results hold only rows at or before the cursor, also for a CSV
\* that carries status values from an earlier run.
C35_HistoryMatchesCursor == InvocationReturned => HistoryMatchesCursor

\* C35, for a batch whose rows after the cursor carry no status: the counts and
\* the cumulative results are as claimed.
C35_WhenNoStoredStatus ==
    (InvocationReturned
        /\ \A j \in (batch.next_row + 1)..Len(batch.rows) : batch.rows[j].status = Blank)
        => HistoryMatchesCursor
C35_WhenNoStoredStatusWitness ==
    /\ InvocationReturned /\ batch.remaining_rows = 1 /\ batch.rows[2].status = Blank
    /\ batch.summary_counts.success + batch.summary_counts.failure
          + batch.summary_counts.skipped = 1
    /\ Len(batch.all_results) = 1


(***************************************************************************)
(* Properties of the session, checked under SpecSession.                   *)
(***************************************************************************)
\* a rerun that leaves a started batch with rows to process alone: the start
\* handler does not run, the context stays that of the same CSV, and rows are
\* gone through by the continue handler only
LockedBatchOnlyContinues ==
    (batch.has_context /\ batch.next_row > 0) =>
        /\ batch'.handler # "start"
        /\ batch'.total = batch.total
        /\ batch'.next_row >= batch.next_row
        /\ (batch'.processed_in_run > 0 => batch'.handler = "continue")

\* the context leaves the session in the reruns whose invocation returned with
\* no remaining rows, and in no other
ContextRemovedWhenFinished ==
    /\ (batch'.returned /\ batch'.remaining_rows = 0) => ~batch'.has_context
    /\ (batch'.returned /\ batch'.remaining_rows # 0) => batch'.has_context
    /\ (batch.has_context /\ ~batch'.has_context)
           => (batch'.returned /\ batch'.remaining_rows = 0)

\* the continue handler without a context goes through no row and stores nothing
ContinueWithoutContextIdle ==
    (batch'.handler = "continue" /\ ~batch.has_context) =>
        /\ batch'.processed_in_run = 0
        /\ ~batch'.returned
        /\ batch'.has_results = batch.has_results
        /\ batch'.remaining_rows = batch.remaining_rows

\* C39: over the reruns of a session, while a started batch still has rows to
\* process (context present with next_row > 0) no new batch is started and only
\* the continue handler processes rows; the context is removed exactly by an
\* invocation that ends with remaining_rows = 0; and a continue request that
\* finds no context processes no row.
C39_SessionLock ==
    /\ [][LockedBatchOnlyContinues]_vars
    /\ [][ContextRemovedWhenFinished]_vars
    /\ [][ContinueWithoutContextIdle]_vars

\* a locked batch has been continued and rows are still left
C39_Witness ==
    /\ batch.handler = "continue"
    /\ batch.returned
    /\ batch.processed_in_run > 0
    /\ batch.has_context
    /\ batch.next_row > 0
    /\ batch.remaining_rows > 0

\* a locked batch has been continued to its end and has left the session
C39_WitnessRemoved ==
    /\ batch.handler = "continue"
    /\ batch.returned
    /\ batch.remaining_rows = 0
    /\ ~batch.has_context
    /\ batch.total = MaxSessionRows

\* the continue controls are drawn only while the session holds a started batch:
\* the request without a context is the answer of the handler to a session that
\* the two handlers themselves never produce
C39_ContinueOfferedOnLoadedBatch ==
    (batch.has_results /\ batch.remaining_rows # 0) => (batch.has_context /\ batch.next_row > 0)

C39_ContinueOfferedWitness ==
    /\ batch.has_results
    /\ batch.remaining_rows # 0
    /\ batch.raised
    /\ batch.handler = "continue"

(***************************************************************************)
(* Properties of the passes over one CSV, checked under SpecPasses.        *)
(***************************************************************************)
\* C32: with skip_completed on in every pass, and the updated CSV of a pass the
\* input of the next, a row that some pass downloaded (status downloaded with a
\* recorded path) is not passed to download_video by any later pass.
C32_DownloadedOnceNeverAgain == batch.again = {}

\* the pass that follows the download does skip the row: it finds the status
\* and the path the download recorded
C32_NextPassSkipsDownloaded ==
    [][(batch.pc = "loaded" /\ batch'.pc = "uploaded") => batch'.calls \cap batch.before = {}]_vars

\* a pass has gone over a CSV in which the pass before recorded a download
C32_NextPassSkipsDownloadedWitness ==
    /\ batch.pc = "uploaded"
    /\ batch.passes = 2
    /\ batch.once # {}
    /\ batch.before = {}
    /\ batch.calls = {}
====
